---- MODULE Spec2Model ----
(***************************************************************************)
(* Verification model of the Trakt OAuth proxy: the rate limiter, the      *)
(* token cache, the persistence adapters, the OAuth controller and the     *)
(* router's middleware chain.  Each subsystem has its own specification    *)
(* (SpecRL, SpecTC, SpecDb, SpecEx, SpecCh)    over its own group of       *)
(* variables; the variables of the other groups stay at their idle value.  *)
(***************************************************************************)
EXTENDS Integers, Sequences, FiniteSets, TLC

VARIABLES
    now,            \* Date.now(), in abstract clock units
    \* ---- RateLimitService ----
    database,       \* how the service's adapter behaves: "none", "ok", "fail"
    memoryStore,    \* RateLimitService.memoryStore : key -> entry
    rateLimits,     \* the adapter's rate_limits table : key -> entry
    refStore,       \* memoryStore of a reference limiter constructed without adapter
    rlHist,         \* per key, the checkRateLimit calls made so far
    lastCheck,      \* the last checkRateLimit call: inputs, entry before and after, outcome
    \* ---- DatabaseAdapter (token operations) ----
    backend,        \* which adapter is constructed: "memory", "sqlite", "postgresql"
    tokens,         \* the adapter's token table: a set of rows
    dbOps,          \* adapter calls made so far
    lastGet,        \* the last getToken call: key, time, the rows held for the key, result
    upsert,         \* the storeToken calls made in a row on one key
    \* ---- TokenCacheService ----
    memoryCache,    \* TokenCacheService.memoryCache, in insertion order
    stats,          \* cacheHits, cacheMisses, dbHits, memoryHits
    tcOps,          \* calls of the service made so far
    lastCache,      \* the last cacheToken call, until the next lookup
    lastLookup,     \* the last getCachedToken call: code, time, result, the call before it
    \* ---- TraktController ----
    exReqs,         \* requests handled so far
    exchanged,      \* per code, the token cached by its last successful exchange
    lastEx,         \* the last request handled: request, response, upstream use
    \* ---- Router.handleRequest ----
    chPc,           \* where handleRequest stands: idle, parsing, chain, handler, unwound, caught, done
    chReqs,         \* requests received so far
    context,        \* the RequestContext of the request in progress
    route,          \* the index of the matched route, 0 when none
    middlewareIndex,        \* executeMiddlewareChain: middlewareIndex
    controllerExecuted,     \* executeMiddlewareChain: controllerExecuted
    middlewareCompleted,    \* executeMiddlewareChain: middlewareCompleted
    response,       \* executeMiddlewareChain: the status of response, 0 for null
    headersSent,    \* res.headersSent
    written,        \* the status on the wire and who wrote it
    timerArmed,     \* the 30 s timeout of the slowloris middleware is pending
    ran,            \* the middlewares run for this request, in order
    continued,      \* the middlewares that called next(), in order
    handlerRuns,    \* how often route.controller.handle was called for this request
    shortBy,        \* the middleware that wrote a response and did not call next()
    reqHeaders,     \* req.headers: authorization and x-api-key
    resHeaders,     \* the headers set with res.setHeader so far
    sentHeaders,    \* the headers of the response on the wire
    sentBody,       \* the response on the wire has a body
    requestLogs,    \* the request-log entries written for this request
    logEntry,       \* the last entry handed to logger.logRequest: success and statusCode
    limiterDenied,  \* checkRateLimit answered false to the rate limiter middleware
    \* ---- CorsMiddleware ----
    corsConfig,     \* serverConfig.environment and securityConfig.allowedOrigins
    corsOrigin,     \* req.headers.origin of the last request
    allowOrigin,    \* the Access-Control-Allow-Origin header of its response
    \* ---- Server / Application shutdown ----
    signalled,      \* SIGTERM or SIGINT has been delivered
    isListening,    \* Server.isListening
    accepting,      \* the listener accepts new connections
    inflight,       \* requests in flight
    served,         \* requests answered so far
    closeEmitted,   \* the listener has emitted 'close'
    srvPc,          \* Server.shutdown: idle, stopping, resolved, rejected
    appPc,          \* main's shutdown: idle, stopping, resolved, rejected
    forceTimers,    \* the 10 s timers of Server.stop in the order they were armed
    adapterConnected,   \* the persistence adapter is connected
    activeTimers,   \* the periodic timers that are still scheduled
    exitCode,       \* the code process.exit was called with, -1 while running
    \* ---- TraktService.makeRequest ----
    upPc,           \* idle, inflight (a request is out), scheduled (a retry timer is pending), done
    upOps,          \* upstream operations started so far
    upEndpoint,     \* the proxy endpoint the operation serves
    retryCount,     \* makeRequest: retryCount of the current attempt
    attempts,       \* https.request calls made for this operation
    settled,        \* the promise of the operation: pending, resolved, rejected
    upError,        \* the error the promise was rejected with
    upHistory,      \* what the upstream did to each attempt
    upReply,        \* the status of the proxy's response, 0 before it is known
    \* ---- TokenCacheService.refreshToken / invalidateToken ----
    trOps,          \* refreshToken, invalidateToken, cacheToken and getCachedToken calls so far
    lastRefresh,    \* the last refreshToken call: what it found, returned and left in the stores
    lastInvalidate, \* the last invalidateToken call: what was present and what it returned
    invalidated,    \* the codes invalidated and not cached again since
    \* ---- MemoryAdapter: rate-limit entries and request logs ----
    maRateLimits,   \* MemoryAdapter.rateLimits: the entries, each with its key and windowStart
    maLogs,         \* MemoryAdapter.requestLogs, oldest first
    maOps,          \* adapter calls so far
    \* ---- RateLimitService.blockIp / unblockIp ----
    blOps,          \* blockIp, unblockIp and checkRateLimit calls so far
    blocks,         \* for each identity the time its block was set and the time it runs to, -1 when not blocked
    lastBlCheck,    \* the last checkRateLimit call: identity, time, result
    lastUnblock,    \* the last unblockIp call, until the next call: identity, result, what existed
    \* ---- SecurityUtils.verifyApiKey ----
    configuredHash,     \* config.apiKeyHash as configured
    verified,       \* the verifyApiKey calls made so far: key, digest, bytes compared, result
    akOps,          \* authenticate calls so far
    lastAuth,       \* the last authenticate call: key and result
    \* ---- the three adapters side by side ----
    eqTables,       \* the token table of each backend
    eqLast,         \* the last adapter call and what each backend returned
    eqOps,          \* adapter calls so far
    \* ---- concurrent checkRateLimit calls ----
    rcCalls,        \* each call in flight: where it is, the entry it read, its result
    \* ---- SecurityMiddleware.slowlorisProtectionMiddleware ----
    activeConnections,\* the Map entry of the identity: count, firstConnection, lastActivity
    slReqs,          \* the requests of the identity: where each one is and when it entered
    staleCleaned,   \* entries removed by cleanupStaleConnections
    \* ---- Container.initialize ----
    configType,     \* config.database.type
    inPc,           \* how far Container.initialize has come
    databaseManager,\* services.databaseManager: undefined, or a manager whose adapter is connected or not
    adapterCalls,   \* calls made on the adapter by the services
    \* ---- overlapping exchange-token requests ----
    oxReqs,         \* the exchange-token requests in flight: code, position, the requests it overlaps
    upstreamCalls,  \* per code, the calls of traktService.exchangeToken made
    \* ---- TokenCacheService statistics ----
    lookups,        \* getCachedToken calls since the last clear, those made by refreshToken included
    stOps,          \* calls of the service so far
    cleared,        \* clear calls so far
    lastStOp        \* the last call of the service

rlVars == <<database, memoryStore, rateLimits, refStore, rlHist, lastCheck>>
dbVars == <<backend, tokens, dbOps, lastGet, upsert>>
tcVars == <<memoryCache, stats, tcOps, lastCache, lastLookup>>
exVars == <<exReqs, exchanged, lastEx>>
chVars == <<chPc, chReqs, context, route, middlewareIndex, controllerExecuted,
            middlewareCompleted, response, headersSent, written, timerArmed, ran,
            continued, handlerRuns, shortBy, reqHeaders, resHeaders, sentHeaders,
            sentBody, requestLogs, logEntry, limiterDenied>>
coVars == <<corsConfig, corsOrigin, allowOrigin>>
sdVars == <<signalled, isListening, accepting, inflight, served, closeEmitted, srvPc, appPc,
            forceTimers, adapterConnected, activeTimers, exitCode>>
upVars == <<upPc, upOps, upEndpoint, retryCount, attempts, settled, upError, upHistory,
            upReply>>
trVars == <<trOps, lastRefresh, lastInvalidate, invalidated>>
maVars == <<maRateLimits, maLogs, maOps>>
blVars == <<blOps, blocks, lastBlCheck, lastUnblock>>
akVars == <<configuredHash, verified, akOps, lastAuth>>
eqVars == <<eqTables, eqLast, eqOps>>
rcVars == <<rcCalls>>
slVars == <<activeConnections, slReqs, staleCleaned>>
inVars == <<configType, inPc, databaseManager, adapterCalls>>
oxVars == <<oxReqs, upstreamCalls>>
stVars == <<lookups, stOps, cleared, lastStOp>>
vars == <<now, rlVars, dbVars, tcVars, exVars, chVars, coVars, sdVars, upVars, trVars, maVars, blVars, akVars, eqVars, rcVars, slVars, inVars, oxVars, stVars>>

\* the variables a specification leaves at their idle value
outsideRL == <<dbVars, tcVars, exVars, chVars, coVars, sdVars, upVars, trVars, maVars, blVars, akVars, eqVars, rcVars, slVars, inVars, oxVars, stVars>>
outsideDb == <<rlVars, tcVars, exVars, chVars, coVars, sdVars, upVars, trVars, maVars, blVars, akVars, eqVars, rcVars, slVars, inVars, oxVars, stVars>>
outsideTC == <<memoryStore, rateLimits, refStore, rlHist, lastCheck, dbOps, lastGet, upsert,
               exVars, chVars, coVars, sdVars, upVars, trVars, maVars, blVars, akVars, eqVars, rcVars, slVars, inVars, oxVars, stVars>>
outsideEx == <<memoryStore, rateLimits, refStore, rlHist, lastCheck, dbOps, lastGet, upsert,
               tcOps, lastCache, lastLookup, chVars, coVars, sdVars, upVars, trVars, maVars, blVars, akVars, eqVars, rcVars, slVars, inVars, oxVars, stVars>>
outsideCh == <<database, refStore, rlHist, lastCheck, dbVars, tcVars, exVars, coVars,
               sdVars, upVars, trVars, maVars, blVars, akVars, eqVars, rcVars, slVars, inVars, oxVars, stVars>>
outsideCo == <<rlVars, dbVars, tcVars, exVars, chVars, sdVars, upVars, trVars, maVars, blVars, akVars, eqVars, rcVars, slVars, inVars, oxVars, stVars>>
outsideSd == <<rlVars, dbVars, tcVars, exVars, chVars, coVars, upVars, trVars, maVars, blVars, akVars, eqVars, rcVars, slVars, inVars, oxVars, stVars>>
outsideUp == <<rlVars, dbVars, tcVars, exVars, chVars, coVars, sdVars, trVars, maVars, blVars, akVars, eqVars, rcVars, slVars, inVars, oxVars, stVars>>

(***************************************************************************)
(* Bounds of the model and configuration values                            *)
(***************************************************************************)
MaxTime == 6                \* the clock stops here
MaxCalls == 4               \* checkRateLimit calls per behaviour
rateLimitMaxRequests == 2   \* config.rateLimitMaxRequests
rateLimitWindowMs == 3      \* config.rateLimitWindowMs, in clock units
MemoryStoreSweepSize == 10000
MaxDbOps == 4               \* adapter calls per behaviour
MaxDbTime == 2              \* the clock of the adapter runs stops here
maxTokens == 3              \* MemoryAdapter.maxTokens, scaled down
MsPerSecond == 2            \* clock units per second, scaled down
MaxTcOps == 3               \* token cache calls per behaviour
MaxTcTime == 3              \* the clock of the token cache runs stops here
tokenCacheTtl == 2          \* config.tokenCacheTtl, in seconds
maxCacheSize == 4           \* TokenCacheService.maxCacheSize, scaled down
MaxExReqs == 2              \* requests to the controller per behaviour
MaxExTime == 2              \* the clock of the controller runs stops here
MaxChReqs == 3              \* requests to the router per behaviour
MaxOriginLen == 3           \* characters of an Origin header
MaxInflight == 2            \* connections that can be open at once
MaxSdReqs == 3              \* requests the server receives per behaviour
MaxSdTime == 4              \* clock ticks of a shutdown behaviour
forceCloseTimeout == 2      \* Server.stop: the 10000 ms force-close timer, in ticks
MaxUpOps == 2               \* upstream operations per behaviour
MaxAttempts == 5            \* cap of the attempts counter
MaxTrOps == 2               \* token cache calls per behaviour, refresh and invalidate included
MaxTrTime == 1              \* the clock of those behaviours stops here
maxRateLimits == 2          \* MemoryAdapter.maxRateLimits, scaled down
maxLogs == 2                \* MemoryAdapter.maxLogs, scaled down
HourMs == 2                 \* setRateLimit: 60 * 60 * 1000 ms, in ticks
MaxMaOps == 4               \* calls to the in-memory adapter per behaviour
MaxMaTime == 2              \* the clock of those behaviours stops here

Ips == {"ip1", "ip2"}
Times == 0..MaxTime

(***************************************************************************)
(* RateLimitEntry                                                          *)
(***************************************************************************)
NoEntry == [requests |-> 0, windowStart |-> -1, lastRequest |-> -1]
NewEntry(t) == [requests |-> 1, windowStart |-> t, lastRequest |-> t]
EmptyStore == [k \in Ips |-> NoEntry]
StoreSize(store) == Cardinality({k \in DOMAIN store : store[k] # NoEntry})

\* RateLimitService.cleanup: drop the entries whose window started before cutoff
cleanup(store, cutoff) ==
    [k \in DOMAIN store |->
        IF store[k] # NoEntry /\ store[k].windowStart < cutoff THEN NoEntry ELSE store[k]]

\* RateLimitService.checkMemoryRateLimit
checkMemoryRateLimit(mem, db, clientIp, t) ==
    LET windowStart == t - rateLimitWindowMs
        entry == mem[clientIp]
    IN  IF entry = NoEntry \/ entry.windowStart < windowStart
        THEN [threw |-> FALSE, allowed |-> TRUE,
              mem |-> [mem EXCEPT ![clientIp] = NewEntry(t)], db |-> db]
        ELSE LET e == [entry EXCEPT !.requests = @ + 1, !.lastRequest = t]
             IN  [threw |-> FALSE, allowed |-> e.requests <= rateLimitMaxRequests,
                  mem |-> [mem EXCEPT ![clientIp] = e], db |-> db]

\* RateLimitService.storeRateLimit: adapter first, memory when absent or failing
storeRateLimit(mem, db, hasDb, writeOk, clientIp, entry) ==
    IF hasDb /\ writeOk
    THEN [mem |-> mem, db |-> [db EXCEPT ![clientIp] = entry]]
    ELSE [mem |-> [mem EXCEPT ![clientIp] = entry], db |-> db]

\* variant: the quota comparison is strict
checkRateLimitTry_strict(mem, db, hasDb, writeOk, clientIp, t) ==
    LET windowStart == t - rateLimitWindowMs
        entry == IF hasDb THEN db[clientIp] ELSE mem[clientIp]
    IN  IF entry = NoEntry \/ entry.windowStart < windowStart
        THEN LET s == storeRateLimit(mem, db, hasDb, writeOk, clientIp, NewEntry(t))
             IN  [threw |-> FALSE, allowed |-> TRUE, mem |-> s.mem, db |-> s.db]
        ELSE LET e == [entry EXCEPT !.requests = @ + 1, !.lastRequest = t]
                 s == storeRateLimit(mem, db, hasDb, writeOk, clientIp, e)
             IN  [threw |-> FALSE, allowed |-> e.requests < rateLimitMaxRequests,
                  mem |-> s.mem, db |-> s.db]

\* the try block of RateLimitService.checkRateLimit, after a successful read
checkRateLimitTry(mem, db, hasDb, writeOk, clientIp, t) ==
    LET windowStart == t - rateLimitWindowMs
        entry == IF hasDb THEN db[clientIp] ELSE mem[clientIp]
    IN  IF entry = NoEntry \/ entry.windowStart < windowStart
        THEN LET s == storeRateLimit(mem, db, hasDb, writeOk, clientIp, NewEntry(t))
             IN  [threw |-> FALSE, allowed |-> TRUE, mem |-> s.mem, db |-> s.db]
        ELSE LET e == [entry EXCEPT !.requests = @ + 1, !.lastRequest = t]
                 s == storeRateLimit(mem, db, hasDb, writeOk, clientIp, e)
                 swept == IF StoreSize(s.mem) > MemoryStoreSweepSize
                          THEN [mem |-> cleanup(s.mem, windowStart),
                                db |-> IF hasDb /\ writeOk THEN cleanup(s.db, windowStart) ELSE s.db]
                          ELSE s
             IN  [threw |-> FALSE, allowed |-> e.requests <= rateLimitMaxRequests,
                  mem |-> swept.mem, db |-> swept.db]

\* variant: the adapter's exception is not caught
checkRateLimit_nocatch(mem, db, hasDb, readOk, writeOk, clientIp, t) ==
    IF hasDb /\ ~readOk
    THEN [threw |-> TRUE, allowed |-> FALSE, mem |-> mem, db |-> db]
    ELSE checkRateLimitTry(mem, db, hasDb, writeOk, clientIp, t)

\* RateLimitService.checkRateLimit: a failed adapter read lands in the catch block
checkRateLimit(mem, db, hasDb, readOk, writeOk, clientIp, t) ==
    IF hasDb /\ ~readOk
    THEN checkMemoryRateLimit(mem, db, clientIp, t)
    ELSE checkRateLimitTry(mem, db, hasDb, writeOk, clientIp, t)

(***************************************************************************)
(* CachedToken and the adapters' token operations                          *)
(***************************************************************************)
Keys == {"k1", "k2", "k3"}
AccessTokens == {"tok1", "tok2"}
NoInt == -1

\* a CachedToken as the token cache builds it
CachedToken(access, refresh, expiresIn, cachedAt, expiresAt) ==
    [access_token |-> access, refresh_token |-> refresh, expires_in |-> expiresIn,
     cached_at |-> cachedAt, expires_at |-> expiresAt]

NullToken == CachedToken("null", "null", NoInt, NoInt, NoInt)

\* what an adapter keeps of a token: the Map holds the object, the SQL tables the
\* columns access_token, refresh_token (NULL when absent), expires_at, cached_at
Row(b, key, token) ==
    IF b = "memory"
    THEN [key |-> key, access_token |-> token.access_token,
          refresh_token |-> token.refresh_token, expires_in |-> token.expires_in,
          cached_at |-> token.cached_at, expires_at |-> token.expires_at]
    ELSE [key |-> key, access_token |-> token.access_token,
          refresh_token |-> IF token.refresh_token = "undefined" THEN "null"
                            ELSE token.refresh_token,
          expires_in |-> NoInt,
          cached_at |-> token.cached_at, expires_at |-> token.expires_at]

RowsFor(rows, key) == {r \in rows : r.key = key}

\* cleanupExpiredTokens: DELETE FROM tokens WHERE expires_at <= now
cleanupExpiredTokens(rows, t) == {r \in rows : ~(r.expires_at <= t)}

\* the n entries with the smallest cached_at
RECURSIVE Oldest(_, _)
Oldest(rows, n) ==
    IF n = 0 \/ rows = {} THEN {}
    ELSE LET o == CHOOSE r \in rows : \A q \in rows : r.cached_at <= q.cached_at
         IN  {o} \cup Oldest(rows \ {o}, n - 1)

\* MemoryAdapter.storeToken
MemoryStoreToken(rows, key, token, t) ==
    LET full == Cardinality(rows) >= maxTokens
        swept == IF full THEN cleanupExpiredTokens(rows, t) ELSE rows
        kept == IF full /\ Cardinality(swept) >= maxTokens
                THEN swept \ Oldest(swept, Cardinality(swept) \div 10)
                ELSE swept
    IN  {r \in kept : r.key # key} \cup {Row("memory", key, token)}

\* variant: a plain INSERT, the row of the key is not replaced
SQLiteStoreToken_insert(rows, key, token) ==
    rows \cup {Row("sqlite", key, token)}

\* SQLiteAdapter.storeToken: INSERT OR REPLACE
SQLiteStoreToken(rows, key, token) ==
    {r \in rows : r.key # key} \cup {Row("sqlite", key, token)}

\* PostgreSQLAdapter.storeToken: INSERT ... ON CONFLICT (key) DO UPDATE
PostgreSQLStoreToken(rows, key, token) ==
    IF RowsFor(rows, key) = {}
    THEN rows \cup {Row("postgresql", key, token)}
    ELSE {IF r.key = key
          THEN [r EXCEPT !.access_token = token.access_token,
                         !.refresh_token = Row("postgresql", key, token).refresh_token,
                         !.expires_at = token.expires_at,
                         !.cached_at = token.cached_at]
          ELSE r : r \in rows}

storeToken(b, rows, key, token, t) ==
    CASE b = "memory" -> MemoryStoreToken(rows, key, token, t)
      [] b = "sqlite" -> SQLiteStoreToken(rows, key, token)
      [] OTHER -> PostgreSQLStoreToken(rows, key, token)

\* the token a row is read back as
FromRow(b, r, t) ==
    CachedToken(r.access_token, r.refresh_token,
                IF b = "memory" THEN r.expires_in ELSE (r.expires_at - t) \div MsPerSecond,
                r.cached_at, r.expires_at)

\* variant: the expiry comparison includes the instant of expiry
MemoryGetToken_late(rows, key, t) ==
    LET found == RowsFor(rows, key)
    IN  IF found = {} THEN [token |-> NullToken, rows |-> rows]
        ELSE LET r == CHOOSE x \in found : TRUE
             IN  IF r.expires_at < t
                 THEN [token |-> NullToken, rows |-> rows \ {r}]
                 ELSE [token |-> FromRow("memory", r, t), rows |-> rows]

\* MemoryAdapter.getToken
MemoryGetToken(rows, key, t) ==
    LET found == RowsFor(rows, key)
    IN  IF found = {} THEN [token |-> NullToken, rows |-> rows]
        ELSE LET r == CHOOSE x \in found : TRUE
             IN  IF r.expires_at <= t
                 THEN [token |-> NullToken, rows |-> rows \ {r}]
                 ELSE [token |-> FromRow("memory", r, t), rows |-> rows]

\* SQLiteAdapter.getToken / PostgreSQLAdapter.getToken:
\* SELECT * FROM tokens WHERE key = ? AND expires_at > now
SqlGetToken(b, rows, key, t) ==
    LET found == {r \in rows : r.key = key /\ r.expires_at > t}
    IN  IF found = {} THEN [token |-> NullToken, rows |-> rows]
        ELSE [token |-> FromRow(b, CHOOSE x \in found : TRUE, t), rows |-> rows]

getToken(b, rows, key, t) ==
    IF b = "memory" THEN MemoryGetToken(rows, key, t) ELSE SqlGetToken(b, rows, key, t)

\* deleteToken: whether a row existed, and the rows left
deleteToken(rows, key) ==
    [existed |-> RowsFor(rows, key) # {}, rows |-> {r \in rows : r.key # key}]

(***************************************************************************)
(* TokenCacheService                                                       *)
(***************************************************************************)
Codes == {"c1", "c2"}

\* SecurityUtils.generateCacheKey(authCode, 'token'): "token:" followed by the
\* first 16 hex digits of the SHA-256 digest; the codes have distinct digests
generateCacheKey(code) == IF code = "c1" THEN "k1" ELSE "k2"

\* the TraktTokenResponse objects the service is handed; expires_in may be absent
TokenResponses ==
    {[access_token |-> "tok1", refresh_token |-> "undefined", expires_in |-> 1],
     [access_token |-> "tok2", refresh_token |-> "r1", expires_in |-> NoInt]}

\* tokens.expires_in || config.tokenCacheTtl
ExpiresIn(resp) ==
    IF resp.expires_in = NoInt \/ resp.expires_in = 0 THEN tokenCacheTtl
    ELSE resp.expires_in

\* { ...tokens, cached_at: now, expires_at: now + expiresIn * 1000 }
MakeCachedToken(resp, t) ==
    CachedToken(resp.access_token, resp.refresh_token, resp.expires_in,
                t, t + ExpiresIn(resp) * MsPerSecond)

NoRow == Row("memory", "none", NullToken)

\* Map.get, Map.set and Map.delete on the insertion-ordered memoryCache
MapGet(cache, key) ==
    IF \E i \in 1..Len(cache) : cache[i].key = key
    THEN cache[CHOOSE i \in 1..Len(cache) : cache[i].key = key]
    ELSE NoRow

MapSet(cache, row) ==
    IF \E i \in 1..Len(cache) : cache[i].key = row.key
    THEN [i \in 1..Len(cache) |-> IF cache[i].key = row.key THEN row ELSE cache[i]]
    ELSE Append(cache, row)

MapDelete(cache, key) ==
    LET keep(r) == r.key # key
    IN  SelectSeq(cache, keep)

\* the position of an entry in the stable sort by cached_at
SortRank(cache, i) ==
    Cardinality({j \in 1..Len(cache) :
        \/ cache[j].cached_at < cache[i].cached_at
        \/ (cache[j].cached_at = cache[i].cached_at /\ j < i)})

\* TokenCacheService.evictOldestEntries: drop the oldest quarter
evictOldestEntries(cache) ==
    LET toRemove == Len(cache) \div 4
        keep(r) == \E i \in 1..Len(cache) :
                        cache[i] = r /\ SortRank(cache, i) >= toRemove
    IN  SelectSeq(cache, keep)

\* TokenCacheService.storeInMemory
storeInMemory(cache, key, token) ==
    MapSet(IF Len(cache) >= maxCacheSize THEN evictOldestEntries(cache) ELSE cache,
           Row("memory", key, token))

\* variant: a failed adapter write is not caught
cacheToken_nofallback(cache, rows, b, hasDb, writeOk, code, resp, t) ==
    LET cacheKey == generateCacheKey(code)
        cachedToken == MakeCachedToken(resp, t)
    IN  IF hasDb
        THEN IF writeOk
             THEN [mem |-> cache, rows |-> storeToken(b, rows, cacheKey, cachedToken, t),
                   threw |-> FALSE, token |-> cachedToken]
             ELSE [mem |-> cache, rows |-> rows, threw |-> TRUE, token |-> cachedToken]
        ELSE [mem |-> storeInMemory(cache, cacheKey, cachedToken), rows |-> rows,
              threw |-> FALSE, token |-> cachedToken]

\* TokenCacheService.cacheToken: the adapter when present, memory when it is
\* absent or its write throws
cacheToken(cache, rows, b, hasDb, writeOk, code, resp, t) ==
    LET cacheKey == generateCacheKey(code)
        cachedToken == MakeCachedToken(resp, t)
    IN  IF hasDb /\ writeOk
        THEN [mem |-> cache, rows |-> storeToken(b, rows, cacheKey, cachedToken, t),
              threw |-> FALSE, token |-> cachedToken]
        ELSE [mem |-> storeInMemory(cache, cacheKey, cachedToken), rows |-> rows,
              threw |-> FALSE, token |-> cachedToken]

NoStats == [cacheHits |-> 0, cacheMisses |-> 0, dbHits |-> 0, memoryHits |-> 0]

\* the memory lookup of getCachedToken; the try block also drops an expired entry
MemoryLookup(cache, rows, cacheKey, t, st, inTry) ==
    LET memoryToken == MapGet(cache, cacheKey)
    IN  IF memoryToken # NoRow /\ memoryToken.expires_at > t
        THEN [token |-> FromRow("memory", memoryToken, t), mem |-> cache, rows |-> rows,
              stats |-> [st EXCEPT !.cacheHits = @ + 1, !.memoryHits = @ + 1],
              threw |-> FALSE]
        ELSE [token |-> NullToken,
              mem |-> IF inTry /\ memoryToken # NoRow THEN MapDelete(cache, cacheKey)
                      ELSE cache,
              rows |-> rows,
              stats |-> [st EXCEPT !.cacheMisses = @ + 1], threw |-> FALSE]

\* variant: the catch block does not look in memory
getCachedToken_nomemory(cache, rows, b, hasDb, readOk, code, t, st) ==
    LET cacheKey == generateCacheKey(code)
    IN  IF hasDb /\ ~readOk
        THEN [token |-> NullToken, mem |-> cache, rows |-> rows,
              stats |-> [st EXCEPT !.cacheMisses = @ + 1], threw |-> FALSE]
        ELSE IF hasDb
             THEN LET g == getToken(b, rows, cacheKey, t)
                  IN  IF g.token # NullToken
                      THEN [token |-> g.token, mem |-> cache, rows |-> g.rows,
                            stats |-> [st EXCEPT !.cacheHits = @ + 1, !.dbHits = @ + 1],
                            threw |-> FALSE]
                      ELSE MemoryLookup(cache, g.rows, cacheKey, t, st, TRUE)
             ELSE MemoryLookup(cache, rows, cacheKey, t, st, TRUE)

\* TokenCacheService.getCachedToken: the adapter first, then memory; a failed
\* adapter read lands in the catch block, which looks in memory
getCachedToken(cache, rows, b, hasDb, readOk, code, t, st) ==
    LET cacheKey == generateCacheKey(code)
    IN  IF hasDb /\ ~readOk
        THEN MemoryLookup(cache, rows, cacheKey, t, st, FALSE)
        ELSE IF hasDb
             THEN LET g == getToken(b, rows, cacheKey, t)
                  IN  IF g.token # NullToken
                      THEN [token |-> g.token, mem |-> cache, rows |-> g.rows,
                            stats |-> [st EXCEPT !.cacheHits = @ + 1, !.dbHits = @ + 1],
                            threw |-> FALSE]
                      ELSE MemoryLookup(cache, g.rows, cacheKey, t, st, TRUE)
             ELSE MemoryLookup(cache, rows, cacheKey, t, st, TRUE)

\* TokenCacheService.cleanup, the body of the cleanup timer
cleanupCache(cache, t) ==
    LET keep(r) == ~(r.expires_at <= t)
    IN  SelectSeq(cache, keep)

(***************************************************************************)
(* TraktController                                                         *)
(***************************************************************************)
Endpoints == {"/trakt/exchange-token", "/trakt/refresh-token",
              "/trakt/device-token", "/trakt/revoke-token"}

\* Content-Type headers that pass the route's case-insensitive content-type check
ContentTypes == {"application/json", "Application/JSON"}

\* BaseController.validateContentType: contentType.includes('application/json')
validateContentType(contentType) ==
    contentType # "undefined" /\ contentType \in {"application/json"}

\* the parsed bodies: null, or an object with the credential field of the
\* endpoint (auth_code, refresh_token, device_code, access_token) and client_id
Bodies ==
    {[kind |-> "null", credential |-> "undefined", client_id |-> "undefined"]} \cup
    [kind : {"object"}, credential : Codes \cup {"undefined"},
     client_id : {"proxy-handled", "my-client"}]

Requests == [contentType : ContentTypes, body : Bodies]

\* ValidationUtils.validateField for { required: true, type: 'string', minLength: 1 }
validateField(value) == value # "undefined" /\ value # ""

\* ValidationUtils.validateObject against the schema of the endpoint
validateRequestBody(body) ==
    /\ body.kind = "object"
    /\ validateField(body.credential)
    /\ validateField(body.client_id)

\* variant: every client_id is accepted
ClientIdAccepted_any(client_id) == TRUE

\* client_id !== 'proxy-handled' is refused
ClientIdAccepted(client_id) == client_id = "proxy-handled"

\* what TraktService answers after its retries: a token response, or a rejection
\* that carries the upstream status in its message
NoResponse == [access_token |-> "null", refresh_token |-> "null", expires_in |-> NoInt]
UpstreamOutcomes ==
    {[ok |-> TRUE, status |-> 200, resp |-> r] : r \in TokenResponses} \cup
    {[ok |-> FALSE, status |-> st, resp |-> NoResponse] : st \in {400, 503}}

\* ErrorUtils.handleError for the plain Error TraktService rejects with
handleError(outcome) == 500

Reply(status, fromCache, access, upstream) ==
    [status |-> status, from_cache |-> fromCache, access_token |-> access,
     upstream |-> upstream]

\* the checks every handler starts with: 415, 400 "Validation failed",
\* 400 "Invalid client ID"; 0 when the request passes them
Precheck(req) ==
    IF ~validateContentType(req.contentType) THEN 415
    ELSE IF ~validateRequestBody(req.body) THEN 400
    ELSE IF ~ClientIdAccepted(req.body.client_id) THEN 400
    ELSE 0

\* TraktController.exchangeToken
exchangeToken(req, up, cache, rows, b, hasDb, readOk, writeOk, t, st) ==
    IF Precheck(req) # 0
    THEN [reply |-> Reply(Precheck(req), FALSE, "null", FALSE),
          mem |-> cache, rows |-> rows, stats |-> st, cached |-> NullToken, inDb |-> FALSE]
    ELSE LET g == getCachedToken(cache, rows, b, hasDb, readOk, req.body.credential, t, st)
         IN  IF g.token # NullToken
             THEN [reply |-> Reply(200, TRUE, g.token.access_token, FALSE),
                   mem |-> g.mem, rows |-> g.rows, stats |-> g.stats,
                   cached |-> NullToken, inDb |-> FALSE]
             ELSE IF ~up.ok
                  THEN [reply |-> Reply(handleError(up), FALSE, "null", TRUE),
                        mem |-> g.mem, rows |-> g.rows, stats |-> g.stats,
                        cached |-> NullToken, inDb |-> FALSE]
                  ELSE LET c == cacheToken(g.mem, g.rows, b, hasDb, writeOk,
                                           req.body.credential, up.resp, t)
                       IN  [reply |-> Reply(200, FALSE, up.resp.access_token, TRUE),
                            mem |-> c.mem, rows |-> c.rows, stats |-> g.stats,
                            cached |-> c.token, inDb |-> hasDb /\ writeOk]

\* TraktController.refreshToken, exchangeDeviceToken and revokeToken
forwardToken(endpoint, req, up) ==
    IF Precheck(req) # 0 THEN Reply(Precheck(req), FALSE, "null", FALSE)
    ELSE IF up.ok
         THEN Reply(200, FALSE,
                    IF endpoint = "/trakt/revoke-token" THEN "null"
                    ELSE up.resp.access_token, TRUE)
         ELSE IF endpoint = "/trakt/device-token" /\ up.status = 400
              THEN Reply(400, FALSE, "null", TRUE)
              ELSE Reply(handleError(up), FALSE, "null", TRUE)

(***************************************************************************)
(* Router: request context, route table, middleware chain                  *)
(***************************************************************************)
Methods == {"GET", "POST", "OPTIONS"}

\* request targets: the path as its segments, and whether new URL() rejects it
Url(segs, malformed) == [segs |-> segs, malformed |-> malformed]

\* the segments the WHATWG URL parser treats as ".." and as "."
IsDoubleDot(seg) == seg \in {"..", "%2e%2e"}
IsSingleDot(seg) == seg \in {".", "%2e"}

\* URL.pathname: the path with its dot segments removed
RECURSIVE removeDotSegments(_, _)
removeDotSegments(segs, out) ==
    IF segs = <<>> THEN out
    ELSE LET seg == Head(segs)
             last == Tail(segs) = <<>>
             popped == IF out = <<>> THEN out ELSE SubSeq(out, 1, Len(out) - 1)
         IN  IF IsDoubleDot(seg)
             THEN removeDotSegments(Tail(segs), IF last THEN Append(popped, "") ELSE popped)
             ELSE IF IsSingleDot(seg)
                  THEN removeDotSegments(Tail(segs), IF last THEN Append(out, "") ELSE out)
                  ELSE removeDotSegments(Tail(segs), Append(out, seg))

\* decodeURIComponent, segment by segment
decodeURIComponent(segs) ==
    [i \in 1..Len(segs) |->
        CASE segs[i] = "%2e%2e" -> ".."
          [] segs[i] = "%2e" -> "."
          [] OTHER -> segs[i]]

\* Router.createRequestContext: pathname of the parsed URL, and the decoded raw
\* path when the URL does not parse
createRequestContext(method, url, ip) ==
    [method |-> method, url |-> url,
     path |-> IF url.malformed THEN decodeURIComponent(url.segs)
              ELSE removeDotSegments(url.segs, <<>>),
     ip |-> ip]

NoContext == [method |-> "none", url |-> Url(<<>>, FALSE), path |-> <<>>, ip |-> "none"]

\* variant: the limiter is registered first and the security headers last
GlobalMiddleware_limiterfirst ==
    <<"rateLimit", "requestSize", "inputSanitization", "requestValidation",
      "slowlorisProtection", "cors", "securityHeaders">>

\* router.use(...), in registration order
GlobalMiddleware ==
    <<"securityHeaders", "requestSize", "inputSanitization", "requestValidation",
      "slowlorisProtection", "cors", "rateLimit">>

TraktMiddleware == <<"authRequired", "jsonContentType", "botDetection", "customRateLimit">>

\* setupRoutes: the route table, in registration order
Routes ==
    <<[method |-> "GET", path |-> <<"health">>, middleware |-> <<>>],
      [method |-> "GET", path |-> <<"metrics">>, middleware |-> <<"byteRateLimit">>],
      [method |-> "GET", path |-> <<"status">>,
       middleware |-> <<"authRequired", "byteRateLimit">>],
      [method |-> "GET", path |-> <<"diagnostics">>,
       middleware |-> <<"authRequired", "byteRateLimit">>],
      [method |-> "POST", path |-> <<"trakt", "exchange-token">>,
       middleware |-> TraktMiddleware],
      [method |-> "POST", path |-> <<"trakt", "refresh-token">>,
       middleware |-> TraktMiddleware],
      [method |-> "POST", path |-> <<"trakt", "device-token">>,
       middleware |-> TraktMiddleware],
      [method |-> "POST", path |-> <<"trakt", "revoke-token">>,
       middleware |-> TraktMiddleware]>>

\* the request targets tried: every route's path, and paths with dot segments
Urls ==
    {Url(Routes[i].path, FALSE) : i \in 1..Len(Routes)} \cup
    {Url(<<"..", "..", "etc", "passwd">>, FALSE),
     Url(<<"trakt", "..", "health">>, FALSE),
     Url(<<"%2e%2e", "status">>, FALSE),
     Url(<<"a..b">>, FALSE),
     Url(<<"[", "..", "etc", "passwd">>, TRUE)}

\* Router.pathMatches: the same path, or the same parts one by one (no route of
\* the table has a wildcard or a parameter)
pathMatches(routePath, requestPath) ==
    \/ routePath = requestPath
    \/ /\ Len(routePath) = Len(requestPath)
       /\ \A i \in 1..Len(routePath) : routePath[i] = requestPath[i]

\* Router.findRoute: the first route that matches, 0 for null
findRoute(method, path) ==
    LET hits == {i \in 1..Len(Routes) :
                    Routes[i].method = method /\ pathMatches(Routes[i].path, path)}
    IN  IF hits = {} THEN 0 ELSE CHOOSE i \in hits : \A j \in hits : i <= j

shouldParseBody(method) == method \in {"POST", "PUT", "PATCH"}

\* [...this.globalMiddleware, ...(route.middleware || [])]
middlewareChain(r) == GlobalMiddleware \o Routes[r].middleware

\* requestValidationMiddleware: the method is not allowed, or context.path
\* matches /\.\./
validationIssues(ctx) ==
    \/ ctx.method \notin {"GET", "POST", "OPTIONS"}
    \/ \E i \in 1..Len(ctx.path) : ctx.path[i] \in {"..", "a..b"}

\* SecurityUtils.hashApiKey: the SHA-256 digest of a key, one digest per key
ApiKeys == {"good-key", "bad-key", ""}
hashApiKey(apiKey) ==
    CASE apiKey = "good-key" -> "digest-1"
      [] apiKey = "bad-key" -> "digest-2"
      [] OTHER -> "digest-0"

\* config.apiKeyHash
apiKeyHash == hashApiKey("good-key")

\* SecurityUtils.verifyApiKey
verifyApiKey(providedKey, storedHash) == hashApiKey(providedKey) = storedHash

\* req.headers: the key of an Authorization: Bearer header and the X-API-Key
\* header, "undefined" for a header that is not sent
KeyHeaders(bearer, xApiKey) == [bearer |-> bearer, xApiKey |-> xApiKey]
NoKeyHeaders == KeyHeaders("undefined", "undefined")
RequestHeaders ==
    {NoKeyHeaders,
     KeyHeaders("good-key", "undefined"),
     KeyHeaders("undefined", "good-key"),
     KeyHeaders("undefined", "bad-key"),
     KeyHeaders("bad-key", "good-key"),
     KeyHeaders("", "undefined")}

\* AuthMiddleware.extractApiKey: the Bearer key when there is one, else X-API-Key
extractApiKey(headers) ==
    IF headers.bearer # "undefined" THEN headers.bearer
    ELSE IF headers.xApiKey # "undefined" THEN headers.xApiKey
    ELSE "null"

\* variant: any key that is presented passes
authenticate_any(headers) == extractApiKey(headers) \notin {"null", ""}

\* AuthMiddleware.authenticate
authenticate(headers) ==
    LET providedKey == extractApiKey(headers)
    IN  IF providedKey \in {"null", ""} THEN FALSE
        ELSE verifyApiKey(providedKey, apiKeyHash)

\* response headers, as name and value
ContentTypeJson == <<"Content-Type", "application/json">>
RateLimitHeaders ==
    {<<"X-RateLimit-Limit", "n">>, <<"X-RateLimit-Remaining", "n">>,
     <<"X-RateLimit-Reset", "n">>, <<"X-RateLimit-Window", "60">>}

\* ErrorUtils.createErrorResponse: its headers
createErrorResponse == {ContentTypeJson}

\* ErrorUtils.createAuthError: its headers
createAuthError == {ContentTypeJson, <<"WWW-Authenticate", "Bearer realm=API">>}

\* variant: the rate-limit error without Retry-After
createRateLimitError_bare(retryAfter) == {ContentTypeJson}

\* ErrorUtils.createRateLimitError: its headers
createRateLimitError(retryAfter) == {ContentTypeJson, <<"Retry-After", retryAfter>>}

\* the headers a middleware sets with res.setHeader before it decides
SetHeaders(name) ==
    CASE name = "securityHeaders" ->
            {<<"X-Content-Type-Options", "nosniff">>, <<"X-Frame-Options", "DENY">>}
      [] name = "cors" -> {<<"Access-Control-Allow-Methods", "GET, POST, OPTIONS">>}
      [] name = "rateLimit" -> RateLimitHeaders
      [] OTHER -> {}

\* the headers a middleware hands to res.writeHead when it answers
WriteHeaders(name) ==
    CASE name \in {"rateLimit", "botDetection", "customRateLimit"} ->
            createRateLimitError("60")
      [] name = "authRequired" -> createAuthError
      [] name = "cors" -> {}
      [] OTHER -> createErrorResponse

\* what a middleware does with a request: 0 when it calls next(), else the
\* status it writes.  The verdict of a limiter is an input.
Outcomes(name, ctx, allowed, authenticated) ==
    CASE name = "requestSize" -> {0, 413}
      [] name = "requestValidation" -> IF validationIssues(ctx) THEN {400} ELSE {0}
      [] name = "slowlorisProtection" -> {0, 429}
      [] name = "cors" -> IF ctx.method = "OPTIONS" THEN {204} ELSE {0}
      [] name = "rateLimit" -> IF allowed THEN {0} ELSE {429}
      [] name = "authRequired" -> IF authenticated THEN {0} ELSE {401}
      [] name = "jsonContentType" ->
            IF shouldParseBody(ctx.method) THEN {0, 400, 415} ELSE {0}
      [] name \in {"botDetection", "customRateLimit", "byteRateLimit"} -> {0, 429}
      [] OTHER -> {0}

\* variant: the index is advanced before the middleware is fetched
nextCall_skip(sent, index, len, executed, completed) ==
    IF sent THEN [kind |-> "completed", index |-> index]
    ELSE IF index + 1 < len THEN [kind |-> "middleware", index |-> index + 2]
    ELSE IF ~executed /\ ~completed THEN [kind |-> "controller", index |-> index]
    ELSE [kind |-> "none", index |-> index]

\* the closure next() of executeMiddlewareChain: what it does, and the index of
\* the middleware it runs (counted from 1)
nextCall(sent, index, len, executed, completed) ==
    IF sent THEN [kind |-> "completed", index |-> index]
    ELSE IF index < len THEN [kind |-> "middleware", index |-> index + 1]
    ELSE IF ~executed /\ ~completed THEN [kind |-> "controller", index |-> index]
    ELSE [kind |-> "none", index |-> index]

\* the statuses route.controller.handle answers with
HandlerStatuses == {200, 400, 415, 500}

\* logRequest: the entry's success flag and statusCode; none written yet
LogEntry(success, statusCode) == [success |-> success, statusCode |-> statusCode]
NoLogEntry == LogEntry(FALSE, 0)

(***************************************************************************)
(* Idle values of the variable groups                                       *)
(***************************************************************************)
NoGet == [key |-> "none", t |-> NoInt, held |-> {}, token |-> NullToken]
NoUpsert == [key |-> "none", n |-> 0, first |-> NullToken, second |-> NullToken,
             others |-> {}, full |-> FALSE]

DbIdle ==
    /\ backend = "memory"
    /\ tokens = {}
    /\ dbOps = 0
    /\ lastGet = NoGet
    /\ upsert = NoUpsert

NoCache == [code |-> "none", token |-> NullToken, threw |-> FALSE]
NoLookup == [code |-> "none", t |-> NoInt, token |-> NullToken, threw |-> FALSE,
             after |-> NoCache]

TcIdle ==
    /\ memoryCache = <<>>
    /\ stats = NoStats
    /\ tcOps = 0
    /\ lastCache = NoCache
    /\ lastLookup = NoLookup

NoExchange == [token |-> NullToken, inDb |-> FALSE]
NoPrior == [known |-> FALSE, fresh |-> FALSE, later |-> FALSE, inDb |-> FALSE,
            held |-> FALSE]
NoEx == [endpoint |-> "none", contentType |-> "undefined", client_id |-> "undefined",
         passed |-> FALSE, reply |-> Reply(0, FALSE, "null", FALSE), readOk |-> TRUE,
         prior |-> NoPrior]

ExIdle ==
    /\ exReqs = 0
    /\ exchanged = [c \in Codes |-> NoExchange]
    /\ lastEx = NoEx

NothingWritten == [status |-> 0, by |-> "none"]

ChIdle ==
    /\ chPc = "idle"
    /\ chReqs = 0
    /\ context = NoContext
    /\ route = 0
    /\ middlewareIndex = 0
    /\ controllerExecuted = FALSE
    /\ middlewareCompleted = FALSE
    /\ response = 0
    /\ headersSent = FALSE
    /\ written = NothingWritten
    /\ timerArmed = FALSE
    /\ ran = <<>>
    /\ continued = <<>>
    /\ handlerRuns = 0
    /\ shortBy = "none"
    /\ reqHeaders = NoKeyHeaders
    /\ resHeaders = {}
    /\ sentHeaders = {}
    /\ sentBody = FALSE
    /\ requestLogs = 0
    /\ logEntry = NoLogEntry
    /\ limiterDenied = FALSE

NoOrigin == [text |-> <<>>, hostname |-> <<>>]
NoCorsConfig == [environment |-> "production", allowedOrigins |-> {}]

CoIdle ==
    /\ corsConfig = NoCorsConfig
    /\ corsOrigin = NoOrigin
    /\ allowOrigin = {}

PeriodicTimers == {"healthCheck", "cacheSweep", "rateLimitSweep"}

SdIdle ==
    /\ signalled = FALSE
    /\ isListening = TRUE
    /\ accepting = TRUE
    /\ inflight = {}
    /\ served = 0
    /\ closeEmitted = FALSE
    /\ srvPc = "idle"
    /\ appPc = "idle"
    /\ forceTimers = <<>>
    /\ adapterConnected = TRUE
    /\ activeTimers = PeriodicTimers
    /\ exitCode = -1

NoUpError == [kind |-> "none", statusCode |-> 0, mentions |-> 0]

UpIdle ==
    /\ upPc = "idle"
    /\ upOps = 0
    /\ upEndpoint = "none"
    /\ retryCount = 0
    /\ attempts = 0
    /\ settled = "pending"
    /\ upError = NoUpError
    /\ upHistory = <<>>
    /\ upReply = 0

StIdle ==
    /\ lookups = 0
    /\ stOps = 0
    /\ cleared = 0
    /\ lastStOp = "none"

OxIdle ==
    /\ oxReqs = <<>>
    /\ upstreamCalls = [c \in Codes |-> 0]

InIdle ==
    /\ configType = "memory"
    /\ inPc = "start"
    /\ databaseManager = "undefined"
    /\ adapterCalls = 0

NoConnection == [count |-> 0, firstConnection |-> -1, lastActivity |-> -1]

SlIdle ==
    /\ activeConnections = NoConnection
    /\ slReqs = <<>>
    /\ staleCleaned = 0

RcIdle == rcCalls = <<>>

Backends == {"memory", "sqlite", "postgresql"}
NoEqCall == [op |-> "none", key |-> "none", t |-> -1, results |-> [b \in Backends |-> <<>>]]

EqIdle ==
    /\ eqTables = [b \in Backends |-> {}]
    /\ eqLast = NoEqCall
    /\ eqOps = 0

NoAuth == [key |-> "none", result |-> FALSE]

AkIdle ==
    /\ configuredHash = "digest-1"
    /\ verified = {}
    /\ akOps = 0
    /\ lastAuth = NoAuth

NoBlock == [at |-> -1, until |-> -1]
NoBlCheck == [ip |-> "none", t |-> -1, allowed |-> FALSE, blockedUntil |-> -1]
NoUnblock == [ip |-> "none", returned |-> FALSE, existed |-> FALSE, wasBlocked |-> FALSE]

BlIdle ==
    /\ blOps = 0
    /\ blocks = [k \in Ips |-> NoBlock]
    /\ lastBlCheck = NoBlCheck
    /\ lastUnblock = NoUnblock

MaIdle ==
    /\ maRateLimits = {}
    /\ maLogs = <<>>
    /\ maOps = 0

NoRefresh == [code |-> "none", found |-> FALSE, returned |-> FALSE, token |-> NullToken,
              writeOk |-> TRUE, memBefore |-> <<>>, rowsBefore |-> {}, memAfter |-> <<>>,
              rowsAfter |-> {}, t |-> NoInt]
NoInvalidate == [code |-> "none", inDb |-> FALSE, inMemory |-> FALSE, returned |-> FALSE,
                 deleted |-> TRUE, leftInDb |-> FALSE, leftInMemory |-> FALSE]

TrIdle ==
    /\ trOps = 0
    /\ lastRefresh = NoRefresh
    /\ lastInvalidate = NoInvalidate
    /\ invalidated = {}

(***************************************************************************)
(* Rate limiter: state machine                                             *)
(***************************************************************************)
NoCheck == [ip |-> "none", t |-> -1, before |-> NoEntry, after |-> NoEntry,
            allowed |-> FALSE, threw |-> FALSE, ref |-> FALSE]

RLIdle ==
    /\ database = "none"
    /\ memoryStore = EmptyStore
    /\ rateLimits = EmptyStore
    /\ refStore = EmptyStore
    /\ rlHist = [k \in Ips |-> <<>>]
    /\ lastCheck = NoCheck

InitRL ==
    /\ now = 0
    /\ ChIdle
    /\ CoIdle
    /\ SdIdle
    /\ UpIdle
    /\ StIdle
    /\ OxIdle
    /\ InIdle
    /\ SlIdle
    /\ RcIdle
    /\ EqIdle
    /\ AkIdle
    /\ BlIdle
    /\ MaIdle
    /\ TrIdle
    /\ ExIdle
    /\ DbIdle
    /\ TcIdle
    /\ database \in {"none", "ok", "fail"}
    /\ memoryStore = EmptyStore
    /\ rateLimits = EmptyStore
    /\ refStore = EmptyStore
    /\ rlHist = [k \in Ips |-> <<>>]
    /\ lastCheck = NoCheck

TotalCalls == Len(rlHist["ip1"]) + Len(rlHist["ip2"])

\* the entry a lookup of the service finds for a key
Consulted(ip) == IF database = "ok" THEN rateLimits[ip] ELSE memoryStore[ip]

CheckRateLimitCall(ip) ==
    /\ TotalCalls < MaxCalls
    /\ LET r == checkRateLimit(memoryStore, rateLimits, database # "none",
                               database = "ok", database = "ok", ip, now)
           ref == checkRateLimit(refStore, EmptyStore, FALSE, TRUE, TRUE, ip, now)
       IN  /\ memoryStore' = r.mem
           /\ rateLimits' = r.db
           /\ refStore' = ref.mem
           /\ rlHist' = [rlHist EXCEPT ![ip] = Append(@, [t |-> now, allowed |-> r.allowed, ref |-> ref.allowed])]
           /\ lastCheck' = [ip |-> ip, t |-> now, before |-> Consulted(ip),
                            after |-> IF database = "ok" THEN r.db[ip] ELSE r.mem[ip],
                            allowed |-> r.allowed, threw |-> r.threw, ref |-> ref.allowed]
    /\ UNCHANGED <<now, database, outsideRL>>

\* the 5-minute sweep timer of RateLimitService.startCleanupTimer
CleanupTimer ==
    /\ \E k \in Ips : memoryStore[k] # NoEntry \/ rateLimits[k] # NoEntry
    /\ memoryStore' = cleanup(memoryStore, now - rateLimitWindowMs)
    /\ rateLimits' = IF database = "ok"
                     THEN cleanup(rateLimits, now - rateLimitWindowMs) ELSE rateLimits
    /\ refStore' = cleanup(refStore, now - rateLimitWindowMs)
    /\ UNCHANGED <<now, database, rlHist, lastCheck, outsideRL>>

Tick ==
    /\ now < MaxTime
    /\ now' = now + 1

TickRL == Tick /\ UNCHANGED <<rlVars, outsideRL>>

NextRL ==
    \/ \E ip \in Ips : CheckRateLimitCall(ip)
    \/ CleanupTimer
    \/ TickRL

SpecRL == InitRL /\ [][NextRL]_vars

(***************************************************************************)
(* Rate limiter: properties                                                *)
(***************************************************************************)
\* the calls of a key that fall inside the window opened by its first call
InFirstWindow(ip, i) == rlHist[ip][i].t - rlHist[ip][1].t < rateLimitWindowMs

\* the first max calls of the first window are allowed, every further one is denied
QuotaInFirstWindow ==
    \A ip \in Ips : \A i \in 1..Len(rlHist[ip]) :
        InFirstWindow(ip, i) => (rlHist[ip][i].allowed <=> i <= rateLimitMaxRequests)

QuotaExhausted(ip) ==
    /\ Len(rlHist[ip]) > rateLimitMaxRequests
    /\ InFirstWindow(ip, rateLimitMaxRequests + 1)
    /\ rlHist[ip][rateLimitMaxRequests].allowed
    /\ ~rlHist[ip][rateLimitMaxRequests + 1].allowed

\* C2: with no adapter or a working adapter, starting from no entry, the first
\* rateLimitMaxRequests calls of one identity inside one window return true and
\* the next call inside that window returns false.
C2_QuotaPerWindow == database \in {"none", "ok"} => QuotaInFirstWindow

C2_Witness == database \in {"none", "ok"} /\ \E ip \in Ips : QuotaExhausted(ip)

\* C3: a call with now - windowStart >= window resets the entry to count 1 and
\* windowStart = now and returns true; a call with now - windowStart < window
\* increments the count and does not reset.
C3_ResetAtWindowLength ==
    (lastCheck.ip # "none" /\ lastCheck.before # NoEntry) =>
        /\ (lastCheck.t - lastCheck.before.windowStart >= rateLimitWindowMs) =>
                (lastCheck.after = NewEntry(lastCheck.t) /\ lastCheck.allowed)
        /\ (lastCheck.t - lastCheck.before.windowStart < rateLimitWindowMs) =>
                /\ lastCheck.after.requests = lastCheck.before.requests + 1
                /\ lastCheck.after.windowStart = lastCheck.before.windowStart

\* C4: with an adapter that throws on every call, checkRateLimit never throws and
\* answers as a limiter without adapter does: the first max calls of a window are
\* allowed and the next one is denied.
C4_FallbackTransparent ==
    database = "fail" =>
        /\ ~lastCheck.threw
        /\ \A ip \in Ips : \A i \in 1..Len(rlHist[ip]) :
                rlHist[ip][i].allowed = rlHist[ip][i].ref
        /\ QuotaInFirstWindow

C4_Witness == database = "fail" /\ \E ip \in Ips : QuotaExhausted(ip)

(***************************************************************************)
(* Adapters: state machine                                                 *)
(***************************************************************************)
InitDb ==
    /\ now = 0
    /\ ChIdle
    /\ CoIdle
    /\ SdIdle
    /\ UpIdle
    /\ StIdle
    /\ OxIdle
    /\ InIdle
    /\ SlIdle
    /\ RcIdle
    /\ EqIdle
    /\ AkIdle
    /\ BlIdle
    /\ MaIdle
    /\ TrIdle
    /\ ExIdle
    /\ RLIdle
    /\ TcIdle
    /\ backend \in {"memory", "sqlite", "postgresql"}
    /\ tokens = {}
    /\ dbOps = 0
    /\ lastGet = NoGet
    /\ upsert = NoUpsert

\* the tokens a caller hands to storeToken at time t
TokenInputs(t) ==
    {CachedToken("tok1", "undefined", 1, t, t + 1 * MsPerSecond),
     CachedToken("tok2", "r1", 2, t, t + 2 * MsPerSecond)}

StoreToken(key, token) ==
    /\ dbOps < MaxDbOps
    /\ dbOps' = dbOps + 1
    /\ tokens' = storeToken(backend, tokens, key, token, now)
    /\ upsert' = IF upsert.key = key /\ upsert.n = 1
                 THEN [upsert EXCEPT !.n = 2, !.second = token,
                           !.full = @ \/ Cardinality(tokens) >= maxTokens]
                 ELSE [key |-> key, n |-> 1, first |-> token, second |-> NullToken,
                       others |-> {r \in tokens : r.key # key},
                       full |-> Cardinality(tokens) >= maxTokens]
    /\ UNCHANGED <<now, backend, lastGet, outsideDb>>

GetToken(key) ==
    /\ dbOps < MaxDbOps
    /\ dbOps' = dbOps + 1
    /\ LET g == getToken(backend, tokens, key, now)
       IN  /\ tokens' = g.rows
           /\ lastGet' = [key |-> key, t |-> now, held |-> RowsFor(tokens, key),
                          token |-> g.token]
    /\ upsert' = NoUpsert
    /\ UNCHANGED <<now, backend, outsideDb>>

DeleteToken(key) ==
    /\ dbOps < MaxDbOps
    /\ dbOps' = dbOps + 1
    /\ tokens' = deleteToken(tokens, key).rows
    /\ upsert' = NoUpsert
    /\ UNCHANGED <<now, backend, lastGet, outsideDb>>

CleanupExpiredTokens ==
    /\ dbOps < MaxDbOps
    /\ dbOps' = dbOps + 1
    /\ tokens' = cleanupExpiredTokens(tokens, now)
    /\ upsert' = NoUpsert
    /\ UNCHANGED <<now, backend, lastGet, outsideDb>>

TickDb == now < MaxDbTime /\ Tick /\ UNCHANGED <<dbVars, outsideDb>>

NextDb ==
    \/ \E key \in Keys : \E token \in TokenInputs(now) : StoreToken(key, token)
    \/ \E key \in Keys : GetToken(key)
    \/ \E key \in Keys : DeleteToken(key)
    \/ CleanupExpiredTokens
    \/ TickDb

SpecDb == InitDb /\ [][NextDb]_vars

(***************************************************************************)
(* Adapters: properties                                                    *)
(***************************************************************************)
Absent(x) == x \in {"undefined", "null"}

\* the token read back is the token that was stored
SameToken(got, put) ==
    /\ got.access_token = put.access_token
    /\ got.expires_at = put.expires_at
    /\ got.cached_at = put.cached_at
    /\ (got.refresh_token = put.refresh_token
        \/ (Absent(got.refresh_token) /\ Absent(put.refresh_token)))

\* C6: on every backend getToken(k) returns the token stored under k at every
\* time before its expires_at and returns null from expires_at on.
C6_ExpiryMonotonic ==
    \A r \in lastGet.held :
        /\ (lastGet.t < r.expires_at) => SameToken(lastGet.token, r)
        /\ (lastGet.t >= r.expires_at) => lastGet.token = NullToken

C6_Witness ==
    /\ backend = "postgresql"
    /\ \E r \in lastGet.held : lastGet.t = r.expires_at /\ r.cached_at < r.expires_at
    /\ \E r \in tokens : r.key # lastGet.key /\ now < r.expires_at

HoldsLatest(key) ==
    /\ Cardinality(RowsFor(tokens, key)) = 1
    /\ \A r \in RowsFor(tokens, key) : SameToken(r, upsert.second)

OthersUnchanged(key) == {r \in tokens : r.key # key} = upsert.others

TwoStores == upsert.n = 2 /\ upsert.first.access_token # upsert.second.access_token

OutsideTCIdle ==
    /\ memoryStore = EmptyStore
    /\ rateLimits = EmptyStore
    /\ refStore = EmptyStore
    /\ rlHist = [k \in Ips |-> <<>>]
    /\ lastCheck = NoCheck
    /\ dbOps = 0
    /\ lastGet = NoGet
    /\ upsert = NoUpsert

\* three tokens cached earlier for other codes, one short of the size limit
Prefill ==
    [i \in 1..(maxCacheSize - 1) |->
        Row("memory", <<"p1", "p2", "p3", "p4", "p5", "p6">>[i],
            CachedToken("tok0", "undefined", NoInt, 0, MaxTcTime + 1))]

\* whether an adapter call may succeed (ok = TRUE) or fail (ok = FALSE)
AdapterMay(ok) ==
    CASE database = "none" -> ok
      [] database = "ok" -> ok
      [] database = "fail" -> ~ok
      [] OTHER -> TRUE

InitTC ==
    /\ now = 0
    /\ OutsideTCIdle
    /\ database \in {"none", "ok", "fail"}
    /\ backend \in IF database \in {"none", "fail"} THEN {"memory"}
                   ELSE {"memory", "sqlite", "postgresql"}
    /\ tokens = {}
    /\ memoryCache \in IF database \in {"none", "fail"} THEN {<<>>, Prefill} ELSE {<<>>}
    /\ stats = NoStats
    /\ tcOps = 0
    /\ lastCache = NoCache
    /\ lastLookup = NoLookup
    /\ ExIdle
    /\ ChIdle
    /\ CoIdle
    /\ SdIdle
    /\ UpIdle
    /\ StIdle
    /\ OxIdle
    /\ InIdle
    /\ SlIdle
    /\ RcIdle
    /\ EqIdle
    /\ AkIdle
    /\ BlIdle
    /\ MaIdle
    /\ TrIdle

CacheTokenCall(code, resp, writeOk) ==
    /\ tcOps < MaxTcOps
    /\ AdapterMay(writeOk)
    /\ tcOps' = tcOps + 1
    /\ LET c == cacheToken(memoryCache, tokens, backend, database # "none", writeOk,
                           code, resp, now)
       IN  /\ memoryCache' = c.mem
           /\ tokens' = c.rows
           /\ lastCache' = [code |-> code, token |-> c.token, threw |-> c.threw]
    /\ UNCHANGED <<now, database, backend, stats, lastLookup, outsideTC>>

GetCachedTokenCall(code, readOk) ==
    /\ tcOps < MaxTcOps
    /\ AdapterMay(readOk)
    /\ tcOps' = tcOps + 1
    /\ LET g == getCachedToken(memoryCache, tokens, backend, database # "none", readOk,
                               code, now, stats)
       IN  /\ memoryCache' = g.mem
           /\ tokens' = g.rows
           /\ stats' = g.stats
           /\ lastLookup' = [code |-> code, t |-> now, token |-> g.token,
                             threw |-> g.threw, after |-> lastCache]
    /\ lastCache' = NoCache
    /\ UNCHANGED <<now, database, backend, outsideTC>>

\* the cleanup timer of TokenCacheService.startCleanupTimer
CacheCleanupTimer(cleanOk) ==
    /\ tcOps < MaxTcOps
    /\ AdapterMay(cleanOk)
    /\ tcOps' = tcOps + 1
    /\ memoryCache' = cleanupCache(memoryCache, now)
    /\ tokens' = IF database # "none" /\ cleanOk
                 THEN cleanupExpiredTokens(tokens, now) ELSE tokens
    /\ UNCHANGED <<now, database, backend, stats, lastCache, lastLookup, outsideTC>>

TickTC == now < MaxTcTime /\ Tick /\ UNCHANGED <<rlVars, dbVars, tcVars, exVars, chVars, coVars, sdVars, upVars, trVars, maVars, blVars, akVars, eqVars, rcVars, slVars, inVars, oxVars, stVars>>

NextTC ==
    \/ \E code \in Codes : \E resp \in TokenResponses : \E ok \in BOOLEAN :
            CacheTokenCall(code, resp, ok)
    \/ \E code \in Codes : \E ok \in BOOLEAN : GetCachedTokenCall(code, ok)
    \/ \E ok \in BOOLEAN : CacheCleanupTimer(ok)
    \/ TickTC

SpecTC == InitTC /\ [][NextTC]_vars

(***************************************************************************)
(* Token cache: properties                                                 *)
(***************************************************************************)
\* the lookup follows a cacheToken call for the same code and precedes its expiry
LookupAfterCache ==
    /\ lastLookup.code # "none"
    /\ lastLookup.after.code = lastLookup.code
    /\ lastLookup.t < lastLookup.after.token.expires_at

\* C5: with an adapter that throws on every call, cacheToken(k, t) followed by
\* getCachedToken(k) before the expiry returns t, and neither call throws.
C5_FailingAdapterRoundTrip ==
    database = "fail" =>
        /\ ~lastCache.threw
        /\ ~lastLookup.threw
        /\ ~lastLookup.after.threw
        /\ LookupAfterCache =>
                /\ SameToken(lastLookup.token, lastLookup.after.token)
                /\ lastLookup.token.expires_in = lastLookup.after.token.expires_in

C5_Witness ==
    /\ database = "fail"
    /\ LookupAfterCache
    /\ lastLookup.t > lastLookup.after.token.cached_at
    /\ Len(memoryCache) = maxCacheSize
    /\ \A i \in 1..Len(memoryCache) : memoryCache[i].key # "p1"

(***************************************************************************)
(* Controller: state machine                                               *)
(***************************************************************************)
\* the controller runs without adapter, or with an adapter of which any call
\* may fail (every call succeeding and every call failing are two of its runs)
InitEx ==
    /\ now = 0
    /\ ChIdle
    /\ CoIdle
    /\ SdIdle
    /\ UpIdle
    /\ StIdle
    /\ OxIdle
    /\ InIdle
    /\ SlIdle
    /\ RcIdle
    /\ EqIdle
    /\ AkIdle
    /\ BlIdle
    /\ MaIdle
    /\ TrIdle
    /\ OutsideTCIdle
    /\ database \in {"none", "flaky"}
    /\ backend \in IF database = "none" THEN {"memory"} ELSE {"memory", "sqlite"}
    /\ tokens = {}
    /\ TcIdle
    /\ ExIdle

\* whether the store the last exchange of the code wrote to still has its entry
Held(code) ==
    LET e == exchanged[code]
        key == generateCacheKey(code)
    IN  /\ e.token # NullToken
        /\ IF e.inDb
           THEN \E r \in tokens : r.key = key /\ SameToken(r, e.token)
           ELSE \E i \in 1..Len(memoryCache) :
                    memoryCache[i].key = key /\ SameToken(memoryCache[i], e.token)

\* what a request that passes the handler's checks meets: whether its code was
\* exchanged before (known), whether the token cached then is unexpired (fresh)
\* and was cached at an earlier instant (later), and where it was written
PriorOf(req, t) ==
    IF Precheck(req) # 0 \/ exchanged[req.body.credential].token = NullToken
    THEN NoPrior
    ELSE LET e == exchanged[req.body.credential]
         IN  [known |-> TRUE, fresh |-> t < e.token.expires_at,
              later |-> t > e.token.cached_at, inDb |-> e.inDb,
              held |-> Held(req.body.credential)]

ExchangeTokenRequest(req, up, readOk, writeOk) ==
    /\ exReqs < MaxExReqs
    /\ AdapterMay(readOk)
    /\ AdapterMay(writeOk)
    /\ exReqs' = exReqs + 1
    /\ LET h == exchangeToken(req, up, memoryCache, tokens, backend, database # "none",
                              readOk, writeOk, now, stats)
       IN  /\ memoryCache' = h.mem
           /\ tokens' = h.rows
           /\ stats' = h.stats
           /\ exchanged' = IF h.cached # NullToken
                           THEN [exchanged EXCEPT ![req.body.credential] =
                                    [token |-> h.cached, inDb |-> h.inDb]]
                           ELSE exchanged
           /\ lastEx' = [endpoint |-> "/trakt/exchange-token",
                         contentType |-> req.contentType,
                         client_id |-> req.body.client_id,
                         passed |-> Precheck(req) = 0,
                         reply |-> h.reply, readOk |-> readOk,
                         prior |-> PriorOf(req, now)]
    /\ UNCHANGED <<now, database, backend, outsideEx>>

ForwardTokenRequest(endpoint, req, up) ==
    /\ exReqs < MaxExReqs
    /\ exReqs' = exReqs + 1
    /\ lastEx' = [endpoint |-> endpoint, contentType |-> req.contentType,
                  client_id |-> req.body.client_id,
                  passed |-> Precheck(req) = 0,
                  reply |-> forwardToken(endpoint, req, up), readOk |-> TRUE,
                  prior |-> NoPrior]
    /\ UNCHANGED <<now, database, backend, tokens, memoryCache, stats, exchanged, outsideEx>>

\* the cleanup timer of the token cache, between two requests
CleanupBetweenRequests(cleanOk) ==
    /\ AdapterMay(cleanOk)
    /\ memoryCache # <<>> \/ tokens # {}
    /\ memoryCache' = cleanupCache(memoryCache, now)
    /\ tokens' = IF database # "none" /\ cleanOk
                 THEN cleanupExpiredTokens(tokens, now) ELSE tokens
    /\ UNCHANGED <<now, database, backend, stats, exVars, outsideEx>>

TickEx == now < MaxExTime /\ Tick /\ UNCHANGED <<rlVars, dbVars, tcVars, exVars, chVars, coVars, sdVars, upVars, trVars, maVars, blVars, akVars, eqVars, rcVars, slVars, inVars, oxVars, stVars>>

\* the upstream outcomes and adapter results a request can meet: a request the
\* handler refuses reaches neither the upstream nor the adapter
UpstreamFor(req) ==
    IF Precheck(req) = 0 THEN UpstreamOutcomes
    ELSE {[ok |-> FALSE, status |-> 503, resp |-> NoResponse]}

\* handleError answers every rejected exchange alike
ExchangeOutcomesFor(req) == {up \in UpstreamFor(req) : up.status # 400}

AdapterFor(req) ==
    IF Precheck(req) = 0 THEN {ok \in BOOLEAN : AdapterMay(ok)}
    ELSE {CHOOSE ok \in BOOLEAN : AdapterMay(ok)}

NextEx ==
    \/ \E req \in Requests : \E up \in ExchangeOutcomesFor(req) :
       \E r, w \in AdapterFor(req) :
            ExchangeTokenRequest(req, up, r, w)
    \/ \E e \in Endpoints \ {"/trakt/exchange-token"} :
       \E req \in Requests : \E up \in UpstreamFor(req) :
            ForwardTokenRequest(e, req, up)
    \/ \E ok \in BOOLEAN : CleanupBetweenRequests(ok)
    \/ TickEx

SpecEx == InitEx /\ [][NextEx]_vars

(***************************************************************************)
(* Controller: properties                                                  *)
(***************************************************************************)
\* a valid exchange request for a code exchanged before, ahead of the expiry
LaterValidExchange ==
    /\ lastEx.endpoint = "/trakt/exchange-token"
    /\ lastEx.passed
    /\ lastEx.prior.known
    /\ lastEx.prior.fresh

ServedFromCache ==
    /\ lastEx.reply.status = 200
    /\ lastEx.reply.from_cache
    /\ ~lastEx.reply.upstream
    /\ lastEx.reply.access_token \in AccessTokens

RefusedClientId ==
    /\ lastEx.endpoint \in Endpoints
    /\ lastEx.client_id # "proxy-handled"

\* C9 as stated: on the four mutating endpoints a request whose client_id
\* differs from the sentinel is answered 400 and the upstream is never invoked.
C9_SentinelOr400 ==
    RefusedClientId => (lastEx.reply.status = 400 /\ ~lastEx.reply.upstream)

\* C9 amended: such a request never reaches the upstream; it is answered 415
\* when its Content-Type does not contain application/json and 400 otherwise.
C9_SentinelOrRefused ==
    RefusedClientId =>
        /\ ~lastEx.reply.upstream
        /\ lastEx.reply.status =
                IF validateContentType(lastEx.contentType) THEN 400 ELSE 415

C9_Witness ==
    /\ RefusedClientId
    /\ lastEx.endpoint = "/trakt/revoke-token"
    /\ lastEx.client_id = "my-client"
    /\ validateContentType(lastEx.contentType)
    /\ lastEx.reply.status = 400

(***************************************************************************)
(* Router: state machine                                                   *)
(***************************************************************************)
InitCh ==
    /\ now = 0
    /\ database \in {"none", "ok"}
    /\ memoryStore = EmptyStore
    /\ rateLimits = EmptyStore
    /\ refStore = EmptyStore
    /\ rlHist = [k \in Ips |-> <<>>]
    /\ lastCheck = NoCheck
    /\ DbIdle
    /\ TcIdle
    /\ ExIdle
    /\ ChIdle
    /\ CoIdle
    /\ SdIdle
    /\ UpIdle
    /\ StIdle
    /\ OxIdle
    /\ InIdle
    /\ SlIdle
    /\ RcIdle
    /\ EqIdle
    /\ AkIdle
    /\ BlIdle
    /\ MaIdle
    /\ TrIdle

\* handleRequest up to its first await: the context, the route lookup and the
\* 404 of a request that matches no route, which is sent and logged
Receive(method, url, ip, headers) ==
    /\ chPc \in {"idle", "done"}
    /\ chReqs < MaxChReqs
    /\ chReqs' = chReqs + 1
    /\ reqHeaders' = headers
    /\ LET ctx == createRequestContext(method, url, ip)
           r == findRoute(ctx.method, ctx.path)
       IN  /\ context' = ctx
           /\ route' = r
           /\ IF r = 0
              THEN /\ headersSent' = TRUE
                   /\ written' = [status |-> 404, by |-> "router"]
                   /\ sentHeaders' = createErrorResponse
                   /\ sentBody' = TRUE
                   /\ requestLogs' = 1
                   /\ logEntry' = LogEntry(FALSE, 404)
                   /\ chPc' = "done"
              ELSE /\ headersSent' = FALSE
                   /\ written' = NothingWritten
                   /\ sentHeaders' = {}
                   /\ sentBody' = FALSE
                   /\ requestLogs' = 0
                   /\ logEntry' = NoLogEntry
                   /\ chPc' = IF shouldParseBody(ctx.method) THEN "parsing" ELSE "chain"
    /\ middlewareIndex' = 0
    /\ controllerExecuted' = FALSE
    /\ middlewareCompleted' = FALSE
    /\ response' = 0
    /\ timerArmed' = FALSE
    /\ ran' = <<>>
    /\ continued' = <<>>
    /\ handlerRuns' = 0
    /\ shortBy' = "none"
    /\ resHeaders' = {}
    /\ limiterDenied' = FALSE
    /\ UNCHANGED <<now, memoryStore, rateLimits, outsideCh>>

\* parseRequestBody resolves, or rejects and the router answers 400 and logs it
ParseBody(ok) ==
    /\ chPc = "parsing"
    /\ IF ok
       THEN /\ chPc' = "chain"
            /\ UNCHANGED <<headersSent, written, sentHeaders, sentBody, requestLogs,
                           logEntry>>
       ELSE /\ chPc' = "done"
            /\ headersSent' = TRUE
            /\ written' = [status |-> 400, by |-> "router"]
            /\ sentHeaders' = createErrorResponse
            /\ sentBody' = TRUE
            /\ requestLogs' = requestLogs + 1
            /\ logEntry' = LogEntry(FALSE, 400)
    /\ UNCHANGED <<now, memoryStore, rateLimits, outsideCh, chReqs, context, route,
                   middlewareIndex, controllerExecuted, middlewareCompleted, response,
                   timerArmed, ran, continued, handlerRuns, shortBy, reqHeaders,
                   resHeaders, limiterDenied>>

NextNow ==
    nextCall(headersSent, middlewareIndex, Len(middlewareChain(route)),
             controllerExecuted, middlewareCompleted)

\* next() finds the response already written
NextCompleted ==
    /\ chPc = "chain"
    /\ NextNow.kind = "completed"
    /\ middlewareCompleted' = TRUE
    /\ chPc' = "unwound"
    /\ UNCHANGED <<now, memoryStore, rateLimits, outsideCh, chReqs, context, route,
                   middlewareIndex, controllerExecuted, response, headersSent, written,
                   timerArmed, ran, continued, handlerRuns, shortBy, reqHeaders,
                   resHeaders, sentHeaders, sentBody, requestLogs, logEntry, limiterDenied>>

\* the answer of RateLimitService.checkRateLimit to the rate limiter middleware
ChainRateLimit ==
    checkRateLimit(memoryStore, rateLimits, database # "none", TRUE, TRUE, context.ip, now)

\* next() runs the middleware at the index: it sets its headers, then writes a
\* response and returns, or calls next(); the rate limiter middleware asks
\* checkRateLimit, the authentication middleware checks the key
RunMiddleware(outcome) ==
    /\ chPc = "chain"
    /\ NextNow.kind = "middleware"
    /\ LET name == middlewareChain(route)[NextNow.index]
           set == resHeaders \cup SetHeaders(name)
       IN  /\ outcome \in Outcomes(name, context, ChainRateLimit.allowed,
                                   authenticate(reqHeaders))
           /\ middlewareIndex' = NextNow.index
           /\ ran' = Append(ran, name)
           /\ memoryStore' = IF name = "rateLimit" THEN ChainRateLimit.mem ELSE memoryStore
           /\ rateLimits' = IF name = "rateLimit" THEN ChainRateLimit.db ELSE rateLimits
           /\ limiterDenied' = IF name = "rateLimit" THEN ~ChainRateLimit.allowed
                               ELSE limiterDenied
           /\ resHeaders' = set
           /\ IF outcome = 0
              THEN /\ continued' = Append(continued, name)
                   /\ timerArmed' = (timerArmed \/ name = "slowlorisProtection")
                   /\ chPc' = "chain"
                   /\ UNCHANGED <<headersSent, written, shortBy, sentHeaders, sentBody>>
              ELSE /\ headersSent' = TRUE
                   /\ written' = [status |-> outcome, by |-> name]
                   /\ sentHeaders' = set \cup WriteHeaders(name)
                   /\ sentBody' = (name # "cors")
                   /\ shortBy' = name
                   /\ timerArmed' = FALSE
                   /\ chPc' = "unwound"
                   /\ UNCHANGED continued
    /\ UNCHANGED <<now, outsideCh, chReqs, context, route, controllerExecuted,
                   middlewareCompleted, response, handlerRuns, reqHeaders, requestLogs,
                   logEntry>>

\* the middlewares that wait for the adapter, so that the timer can fire in them
AwaitsAdapter == {"rateLimit", "botDetection"}

\* the timeout fires while a middleware waits for the adapter and writes 408.
\* The rate limiter middleware then throws in res.setHeader, the bot detection
\* throws in res.writeHead when it denies and calls next() when it does not;
\* a throw lands in the catch block of handleRequest.
Interrupted(outcome) ==
    /\ chPc = "chain"
    /\ NextNow.kind = "middleware"
    /\ database # "none"
    /\ timerArmed
    /\ ~headersSent
    /\ LET name == middlewareChain(route)[NextNow.index]
           throws == name = "rateLimit" \/ outcome # 0
       IN  /\ name \in AwaitsAdapter
           /\ outcome \in Outcomes(name, context, ChainRateLimit.allowed,
                                   authenticate(reqHeaders))
           /\ middlewareIndex' = NextNow.index
           /\ ran' = Append(ran, name)
           /\ memoryStore' = IF name = "rateLimit" THEN ChainRateLimit.mem ELSE memoryStore
           /\ rateLimits' = IF name = "rateLimit" THEN ChainRateLimit.db ELSE rateLimits
           /\ limiterDenied' = IF name = "rateLimit" THEN ~ChainRateLimit.allowed
                               ELSE limiterDenied
           /\ continued' = IF throws THEN continued ELSE Append(continued, name)
           /\ chPc' = IF throws THEN "caught" ELSE "chain"
    /\ headersSent' = TRUE
    /\ written' = [status |-> 408, by |-> "timeout"]
    /\ sentHeaders' = resHeaders \cup createErrorResponse
    /\ sentBody' = TRUE
    /\ timerArmed' = FALSE
    /\ UNCHANGED <<now, outsideCh, chReqs, context, route, controllerExecuted,
                   middlewareCompleted, response, handlerRuns, shortBy, reqHeaders,
                   resHeaders, requestLogs, logEntry>>

\* next() past the last middleware calls route.controller.handle
RunController ==
    /\ chPc = "chain"
    /\ NextNow.kind = "controller"
    /\ controllerExecuted' = TRUE
    /\ handlerRuns' = handlerRuns + 1
    /\ chPc' = "handler"
    /\ UNCHANGED <<now, memoryStore, rateLimits, outsideCh, chReqs, context, route,
                   middlewareIndex, middlewareCompleted, response, headersSent, written,
                   timerArmed, ran, continued, shortBy, reqHeaders, resHeaders,
                   sentHeaders, sentBody, requestLogs, logEntry, limiterDenied>>

HandlerReturns(status) ==
    /\ chPc = "handler"
    /\ response' = status
    /\ chPc' = "unwound"
    /\ UNCHANGED <<now, memoryStore, rateLimits, outsideCh, chReqs, context, route,
                   middlewareIndex, controllerExecuted, middlewareCompleted, headersSent,
                   written, timerArmed, ran, continued, handlerRuns, shortBy, reqHeaders,
                   resHeaders, sentHeaders, sentBody, requestLogs, logEntry, limiterDenied>>

\* the 30 s timer armed by the slowloris middleware writes 408 while the
\* handler is at work
Timeout ==
    /\ chPc = "handler"
    /\ timerArmed
    /\ ~headersSent
    /\ headersSent' = TRUE
    /\ written' = [status |-> 408, by |-> "timeout"]
    /\ sentHeaders' = resHeaders \cup createErrorResponse
    /\ sentBody' = TRUE
    /\ timerArmed' = FALSE
    /\ UNCHANGED <<now, memoryStore, rateLimits, outsideCh, chPc, chReqs, context, route,
                   middlewareIndex, controllerExecuted, middlewareCompleted, response,
                   ran, continued, handlerRuns, shortBy, reqHeaders, resHeaders,
                   requestLogs, logEntry, limiterDenied>>

\* variant: sendResponse does not look at res.headersSent
Finish_unguarded ==
    /\ chPc \in {"unwound", "caught"}
    /\ LET returned == IF middlewareCompleted \/ chPc = "caught" THEN 0 ELSE response
           handled == returned # 0 \/ chPc = "caught"
       IN  /\ IF handled
              THEN /\ headersSent' = TRUE
                   /\ written' = [status |-> IF chPc = "caught" THEN 500 ELSE returned,
                                  by |-> "router"]
                   /\ sentHeaders' = resHeaders \cup {ContentTypeJson}
                   /\ sentBody' = TRUE
              ELSE UNCHANGED <<headersSent, written, sentHeaders, sentBody>>
           /\ requestLogs' = IF handled THEN requestLogs + 1 ELSE requestLogs
           /\ logEntry' = IF chPc = "caught" THEN LogEntry(FALSE, 500)
                          ELSE IF handled THEN LogEntry(TRUE, returned)
                          ELSE logEntry
    /\ timerArmed' = FALSE
    /\ chPc' = "done"
    /\ UNCHANGED <<now, memoryStore, rateLimits, outsideCh, chReqs, context, route,
                   middlewareIndex, controllerExecuted, middlewareCompleted, response,
                   ran, continued, handlerRuns, shortBy, reqHeaders, resHeaders,
                   limiterDenied>>

\* executeMiddlewareChain returns.  When it returned a response, handleRequest
\* sends it, unless the headers are sent already, and logs the request; the
\* catch block does the same; when it returned null, nothing is sent or logged.
Finish ==
    /\ chPc \in {"unwound", "caught"}
    /\ LET returned == IF middlewareCompleted \/ chPc = "caught" THEN 0 ELSE response
           handled == returned # 0 \/ chPc = "caught"
       IN  /\ IF handled /\ ~headersSent
              THEN /\ headersSent' = TRUE
                   /\ written' = [status |-> IF chPc = "caught" THEN 500 ELSE returned,
                                  by |-> "router"]
                   /\ sentHeaders' = resHeaders \cup {ContentTypeJson}
                   /\ sentBody' = TRUE
              ELSE UNCHANGED <<headersSent, written, sentHeaders, sentBody>>
           /\ requestLogs' = IF handled THEN requestLogs + 1 ELSE requestLogs
           /\ logEntry' = IF chPc = "caught" THEN LogEntry(FALSE, 500)
                          ELSE IF handled THEN LogEntry(TRUE, returned)
                          ELSE logEntry
    /\ timerArmed' = FALSE
    /\ chPc' = "done"
    /\ UNCHANGED <<now, memoryStore, rateLimits, outsideCh, chReqs, context, route,
                   middlewareIndex, controllerExecuted, middlewareCompleted, response,
                   ran, continued, handlerRuns, shortBy, reqHeaders, resHeaders,
                   limiterDenied>>

\* the requests tried: every route with its own method, without a key and with
\* the right one; every choice of key headers on /diagnostics and on
\* /trakt/exchange-token; a preflight and a wrong method on routed paths; the
\* paths with dot segments
Arrival(method, url, headers) == [method |-> method, url |-> url, headers |-> headers]
Arrivals ==
    {Arrival(Routes[i].method, Url(Routes[i].path, FALSE), h) :
        i \in 1..Len(Routes), h \in {NoKeyHeaders, KeyHeaders("good-key", "undefined")}} \cup
    {Arrival(Routes[i].method, Url(Routes[i].path, FALSE), h) :
        i \in {4, 5}, h \in RequestHeaders} \cup
    {Arrival(m, Url(Routes[i].path, FALSE), NoKeyHeaders) :
        m \in {"OPTIONS", "GET"}, i \in {1, 5}} \cup
    {Arrival("GET", u, NoKeyHeaders) :
        u \in {u \in Urls : \A i \in 1..Len(Routes) : u.segs # Routes[i].path}}

NextCh ==
    \/ \E a \in Arrivals : \E ip \in Ips : Receive(a.method, a.url, ip, a.headers)
    \/ \E ok \in BOOLEAN : ParseBody(ok)
    \/ NextCompleted
    \/ \E outcome \in {0, 204, 400, 401, 413, 415, 429} : RunMiddleware(outcome)
    \/ \E outcome \in {0, 429} : Interrupted(outcome)
    \/ RunController
    \/ \E status \in HandlerStatuses : HandlerReturns(status)
    \/ Timeout
    \/ Finish

SpecCh == InitCh /\ [][NextCh]_vars

(***************************************************************************)
(* Router: properties                                                      *)
(***************************************************************************)
IsPrefix(s, t) == Len(s) <= Len(t) /\ SubSeq(t, 1, Len(s)) = s

\* C1: once a middleware has written a response without calling next(), no later
\* middleware and no handler runs; the handler runs at most once, and only after
\* every middleware of the chain, global then route-specific, has called next().
C1_ChainShortCircuit ==
    /\ handlerRuns <= 1
    /\ route # 0 => IsPrefix(ran, middlewareChain(route))
    /\ handlerRuns = 1 => (continued = middlewareChain(route) /\ shortBy = "none")
    /\ shortBy # "none" =>
            /\ handlerRuns = 0
            /\ ran = Append(continued, shortBy)

C1_Witness ==
    /\ chPc = "done"
    /\ shortBy = "jsonContentType"
    /\ written = [status |-> 415, by |-> "jsonContentType"]
    /\ Len(ran) = Len(GlobalMiddleware) + 2
    /\ chReqs > 1

\* the raw path of the request carries a traversal sequence
HasTraversal(url) == \E i \in 1..Len(url.segs) : IsDoubleDot(url.segs[i])

\* C10: a request whose path contains a traversal sequence is answered 400 by the
\* structural-validation middleware, before route matching and authentication.
C10_TraversalRejected ==
    (chPc = "done" /\ HasTraversal(context.url)) =>
        written = [status |-> 400, by |-> "requestValidation"]

RetryAfter60 == <<"Retry-After", "60">>
RouteSpecificRan == route # 0 /\ Len(ran) > Len(GlobalMiddleware)
Denied == chPc = "done" /\ limiterDenied

\* C11: when the global rate limiter denies a request, the response is 429 with
\* Retry-After: 60, and no route-specific middleware and no handler (hence no
\* upstream call) runs for that request.
C11_LimiterDenial ==
    Denied =>
        /\ written.status = 429
        /\ RetryAfter60 \in sentHeaders
        /\ ~RouteSpecificRan
        /\ handlerRuns = 0

\* C11 as the code has it: the same, except that the 30 s request timeout may
\* have written 408 while the limiter was waiting for the adapter.
C11_LimiterDenialOrTimeout ==
    Denied =>
        /\ ~RouteSpecificRan
        /\ handlerRuns = 0
        /\ IF written.by = "timeout"
           THEN written.status = 408
           ELSE /\ written = [status |-> 429, by |-> "rateLimit"]
                /\ RetryAfter60 \in sentHeaders

C11_Witness ==
    /\ Denied
    /\ written = [status |-> 429, by |-> "rateLimit"]
    /\ RetryAfter60 \in sentHeaders
    /\ memoryStore[context.ip].requests = rateLimitMaxRequests + 1

HasHeader(name) == \E h \in sentHeaders : h[1] = name

\* C12: every response with status 429, whichever middleware produced it,
\* carries a Retry-After header.
C12_RetryAfterOn429 == written.status = 429 => HasHeader("Retry-After")

\* C13: every response, whatever stage produced it, carries X-RateLimit-Limit,
\* X-RateLimit-Remaining, X-RateLimit-Reset and X-RateLimit-Window.
C13_RateLimitHeadersAlways ==
    headersSent =>
        \A name \in {"X-RateLimit-Limit", "X-RateLimit-Remaining", "X-RateLimit-Reset",
                     "X-RateLimit-Window"} : HasHeader(name)

\* the routes that have the authentication middleware
AuthRoutes == {i \in 1..Len(Routes) :
                    \E j \in 1..Len(Routes[i].middleware) :
                        Routes[i].middleware[j] = "authRequired"}

\* the request presents, in one of the two headers, a key with the stored digest
PresentsValidKey ==
    \E key \in {reqHeaders.bearer, reqHeaders.xApiKey} :
        key # "undefined" /\ hashApiKey(key) = apiKeyHash

Unauthenticated == route \in AuthRoutes /\ ~PresentsValidKey
AuthRan == \E i \in 1..Len(ran) : ran[i] = "authRequired"
Answered401 ==
    /\ written = [status |-> 401, by |-> "authRequired"]
    /\ HasHeader("WWW-Authenticate")

\* C14: the handler of an auth-required route is never invoked for a request
\* without a valid key in Authorization: Bearer or X-API-Key, and such a request
\* is answered 401 with a WWW-Authenticate header.
C14_Unauthenticated401 ==
    Unauthenticated =>
        /\ handlerRuns = 0
        /\ chPc = "done" => Answered401

\* C14 as the code has it: the handler is never invoked; the answer is 401 with
\* WWW-Authenticate when the request reaches the authentication middleware, and
\* the answer of the earlier stage (400, 408, 413 or 429) when it does not.
C14_UnauthenticatedNeverHandled ==
    Unauthenticated =>
        /\ handlerRuns = 0
        /\ chPc = "done" =>
                IF AuthRan THEN Answered401
                ELSE written.status \in {400, 408, 413, 429}

C14_Witness ==
    /\ chPc = "done"
    /\ Unauthenticated
    /\ reqHeaders = KeyHeaders("undefined", "bad-key")
    /\ Answered401
    /\ handlerRuns = 0

\* the path of the request is the path of a registered route
RoutedPath == \E i \in 1..Len(Routes) : Routes[i].path = context.path

\* C15: an OPTIONS request to a path that has a registered route is answered by
\* the CORS middleware with a response without a body, and neither the rate
\* limiter, a route-specific middleware nor the handler runs for it.
C15_PreflightShortCircuit ==
    (chPc = "done" /\ context.method = "OPTIONS" /\ RoutedPath) =>
        /\ written.by = "cors"
        /\ ~sentBody
        /\ \A i \in 1..Len(ran) : ran[i] # "rateLimit"
        /\ handlerRuns = 0

\* C20: every request handled by the router produces exactly one request-log
\* entry, whether the response came from the handler, from a short-circuiting
\* middleware or from an error path.
C20_OneLogEntry == chPc = "done" => requestLogs = 1


(***************************************************************************)
(* CorsMiddleware: the Access-Control-Allow-Origin header                  *)
(*                                                                         *)
(* An origin is the text of the Origin header, a sequence of characters,   *)
(* together with the labels of the hostname new URL(origin) parses out of  *)
(* it (no labels when the URL constructor throws).  A missing and an empty *)
(* Origin header are both falsy.                                           *)
(***************************************************************************)
Alphabet == {"a", "."}

RECURSIVE Texts(_)
Texts(n) ==
    IF n = 0 THEN {<<>>}
    ELSE Texts(n - 1) \cup {Append(t, c) : t \in {u \in Texts(n - 1) : Len(u) = n - 1},
                                           c \in Alphabet}

Hostnames == {<<>>, <<"localhost">>, <<"127.0.0.1">>, <<"0.0.0.0">>,
              <<"app", "localhost">>, <<"localhost", "example">>, <<"example">>}

Origins == {[text |-> t, hostname |-> h] : t \in Texts(MaxOriginLen) \ {<<>>}, h \in Hostnames}
               \cup {NoOrigin}

Patterns == {<<"*">>, <<"*", ".", "a">>, <<"a", ".", "a">>}

CorsConfigs == [environment : {"development", "production"}, allowedOrigins : SUBSET Patterns]

\* hostname.endsWith('.localhost')
endsWithLocalhost(hostname) == Len(hostname) >= 2 /\ hostname[Len(hostname)] = "localhost"

isLocalhost(origin) ==
    /\ origin.hostname # <<>>
    /\ \/ origin.hostname = <<"localhost">>
       \/ origin.hostname = <<"127.0.0.1">>
       \/ origin.hostname = <<"0.0.0.0">>
       \/ endsWithLocalhost(origin.hostname)

\* pattern.replace(/\*/g, '.*'): the source of the regular expression, token by token
replaceStars(pattern) == [i \in 1..Len(pattern) |-> IF pattern[i] = "*" THEN ".*" ELSE pattern[i]]

\* new RegExp('^' + source + '$').test(text): "." is any character, ".*" any run of them
RECURSIVE regexTest(_, _)
regexTest(source, text) ==
    IF source = <<>> THEN text = <<>>
    ELSE IF Head(source) = ".*"
         THEN \/ regexTest(Tail(source), text)
              \/ text # <<>> /\ regexTest(source, Tail(text))
         ELSE /\ text # <<>>
              /\ Head(source) = "." \/ Head(source) = Head(text)
              /\ regexTest(Tail(source), Tail(text))

includesStar(pattern) == \E i \in 1..Len(pattern) : pattern[i] = "*"

matchesPattern(text, pattern) ==
    IF pattern = <<"*">> THEN TRUE
    ELSE IF includesStar(pattern) THEN regexTest(replaceStars(pattern), text)
    ELSE text = pattern

\* the value of the header, or no value for null
getAllowedOrigin(config, origin) ==
    IF origin.text = <<>> THEN {}
    ELSE IF config.environment = "development" /\ isLocalhost(origin) THEN {origin.text}
    ELSE IF origin.text \in config.allowedOrigins THEN {origin.text}
    ELSE IF \E allowedOrigin \in config.allowedOrigins : matchesPattern(origin.text, allowedOrigin)
         THEN {origin.text}
    ELSE {}

InitCors ==
    /\ now = 0
    /\ database = "none"
    /\ RLIdle
    /\ DbIdle
    /\ TcIdle
    /\ ExIdle
    /\ ChIdle
    /\ SdIdle
    /\ UpIdle
    /\ StIdle
    /\ OxIdle
    /\ InIdle
    /\ SlIdle
    /\ RcIdle
    /\ EqIdle
    /\ AkIdle
    /\ BlIdle
    /\ MaIdle
    /\ TrIdle
    /\ corsConfig \in CorsConfigs
    /\ corsOrigin = NoOrigin
    /\ allowOrigin = {}

\* setCorsHeaders on a fresh response
SetCorsHeaders(origin) ==
    /\ corsOrigin' = origin
    /\ allowOrigin' = getAllowedOrigin(corsConfig, origin)
    /\ UNCHANGED <<now, corsConfig, outsideCo>>

NextCors == \E origin \in Origins : SetCorsHeaders(origin)

SpecCors == InitCors /\ [][NextCors]_vars

(***************************************************************************)
(* CorsMiddleware: properties                                              *)
(***************************************************************************)
\* a wildcard pattern read as a wildcard: "*" stands for any run of characters and every
\* other character, the dot included, for itself
RECURSIVE WildcardMatch(_, _)
WildcardMatch(pattern, text) ==
    IF pattern = <<>> THEN text = <<>>
    ELSE IF Head(pattern) = "*"
         THEN \/ WildcardMatch(Tail(pattern), text)
              \/ text # <<>> /\ WildcardMatch(pattern, Tail(text))
         ELSE /\ text # <<>>
              /\ Head(pattern) = Head(text)
              /\ WildcardMatch(Tail(pattern), Tail(text))

Loopback(origin) ==
    \/ origin.hostname = <<"localhost">>
    \/ origin.hostname = <<"127.0.0.1">>
    \/ endsWithLocalhost(origin.hostname)

OriginPermitted(config, origin) ==
    /\ origin.text # <<>>
    /\ \/ origin.text \in config.allowedOrigins
       \/ \E pattern \in config.allowedOrigins :
              includesStar(pattern) /\ WildcardMatch(pattern, origin.text)
       \/ config.environment = "development" /\ Loopback(origin)

\* C16: the response carries Access-Control-Allow-Origin, equal to the request's Origin,
\* only if the origin is in the allow-list verbatim, matches a configured wildcard pattern,
\* or the environment is development and the origin is loopback; every other origin gets
\* no Access-Control-Allow-Origin header.
C16_AllowOriginOnlyIfPermitted ==
    /\ allowOrigin \subseteq {corsOrigin.text}
    /\ allowOrigin # {} => OriginPermitted(corsConfig, corsOrigin)

(***************************************************************************)
(* Server / Application: shutdown on SIGTERM or SIGINT                     *)
(*                                                                         *)
(* Two listeners are registered for each signal: Server.shutdown, by the   *)
(* Server constructor, and main's shutdown, after app.start().  A signal   *)
(* runs both, in that order, before any promise continuation.              *)
(***************************************************************************)
Connections == 1..MaxInflight

Running == exitCode = -1

\* RateLimitService.destroy and TokenCacheService.destroy: clearInterval(cleanupInterval)
destroy(timers) == timers \ {"rateLimitSweep", "cacheSweep"}

\* DatabaseManager.cleanup: clearInterval(healthCheckInterval), then adapter.disconnect()
stopHealthCheck(timers) == timers \ {"healthCheck"}

InitSd ==
    /\ now = 0
    /\ database = "none"
    /\ RLIdle
    /\ DbIdle
    /\ TcIdle
    /\ ExIdle
    /\ ChIdle
    /\ CoIdle
    /\ UpIdle
    /\ StIdle
    /\ OxIdle
    /\ InIdle
    /\ SlIdle
    /\ RcIdle
    /\ EqIdle
    /\ AkIdle
    /\ BlIdle
    /\ MaIdle
    /\ TrIdle
    /\ SdIdle

\* a client connects and sends a request
Connect(c) ==
    /\ Running
    /\ accepting
    /\ c \notin inflight
    /\ served + Cardinality(inflight) < MaxSdReqs
    /\ inflight' = inflight \cup {c}
    /\ UNCHANGED <<now, signalled, isListening, accepting, served, closeEmitted, srvPc, appPc,
                   forceTimers, adapterConnected, activeTimers, exitCode, outsideSd>>

\* a request in flight is answered and its connection ends
Complete(c) ==
    /\ Running
    /\ c \in inflight
    /\ inflight' = inflight \ {c}
    /\ served' = served + 1
    /\ UNCHANGED <<now, signalled, isListening, accepting, closeEmitted, srvPc, appPc,
                   forceTimers, adapterConnected, activeTimers, exitCode, outsideSd>>

\* Server.stop called while isListening: server.close(callback) and the force-close timer
armTimer(timers, owner) == Append(timers, [owner |-> owner, at |-> now + forceCloseTimeout])

\* process.on(signal): Server.shutdown calls this.stop(), then main's shutdown calls
\* app.stop(), which calls this.server.stop(); isListening is still true for both
Signal ==
    /\ Running
    /\ ~signalled
    /\ isListening
    /\ signalled' = TRUE
    /\ accepting' = FALSE
    /\ srvPc' = "stopping"
    /\ appPc' = "stopping"
    /\ forceTimers' = armTimer(armTimer(forceTimers, "server"), "app")
    /\ UNCHANGED <<now, isListening, inflight, served, closeEmitted, adapterConnected, activeTimers,
                   exitCode, outsideSd>>

\* the listener emits 'close' once no connection is left: the callback of the first
\* server.close resolves, the callback of the second one, registered on a server whose
\* handle is gone, is called with ERR_SERVER_NOT_RUNNING and rejects
CloseEvent ==
    /\ Running
    /\ ~accepting
    /\ ~closeEmitted
    /\ inflight = {}
    /\ closeEmitted' = TRUE
    /\ isListening' = FALSE
    /\ srvPc' = IF srvPc = "stopping" THEN "resolved" ELSE srvPc
    /\ appPc' = IF appPc = "stopping" THEN "rejected" ELSE appPc
    /\ UNCHANGED <<now, signalled, accepting, inflight, served, forceTimers, adapterConnected,
                   activeTimers, exitCode, outsideSd>>

TimerDue == forceTimers # <<>> /\ Head(forceTimers).at <= now

\* the force-close timer armed first fires: isListening = false and reject; a promise that
\* is already settled stays as it is
ForceTimeout ==
    /\ Running
    /\ TimerDue
    /\ isListening' = FALSE
    /\ LET owner == Head(forceTimers).owner IN
        /\ srvPc' = IF owner = "server" /\ srvPc = "stopping" THEN "rejected" ELSE srvPc
        /\ appPc' = IF owner = "app" /\ appPc = "stopping" THEN "rejected" ELSE appPc
    /\ forceTimers' = Tail(forceTimers)
    /\ UNCHANGED <<now, signalled, accepting, inflight, served, closeEmitted, adapterConnected,
                   activeTimers, exitCode, outsideSd>>

\* Server.shutdown after await this.stop(): logger.close() and process.exit(0), or the
\* catch block and process.exit(1)
ShutdownContinues ==
    /\ Running
    /\ srvPc \in {"resolved", "rejected"}
    /\ exitCode' = IF srvPc = "resolved" THEN 0 ELSE 1
    /\ UNCHANGED <<now, signalled, isListening, accepting, inflight, served, closeEmitted, srvPc,
                   appPc, forceTimers, adapterConnected, activeTimers, outsideSd>>

\* Application.stop after await this.server.stop(): Container.cleanup and, back in main,
\* process.exit(0); when server.stop() rejected, Application.stop rethrows and main's catch
\* block calls process.exit(1)
MainContinues ==
    /\ Running
    /\ appPc \in {"resolved", "rejected"}
    /\ IF appPc = "resolved"
       THEN /\ activeTimers' = stopHealthCheck(destroy(activeTimers))
            /\ adapterConnected' = FALSE
            /\ exitCode' = 0
       ELSE /\ exitCode' = 1
            /\ UNCHANGED <<activeTimers, adapterConnected>>
    /\ UNCHANGED <<now, signalled, isListening, accepting, inflight, served, closeEmitted, srvPc,
                   appPc, forceTimers, outsideSd>>

\* time passes, up to the moment the next timer is due and while no continuation is queued
TickSd ==
    /\ Running
    /\ now < MaxSdTime
    /\ ~TimerDue
    /\ srvPc \in {"idle", "stopping"}
    /\ appPc \in {"idle", "stopping"}
    /\ now' = now + 1
    /\ UNCHANGED <<sdVars, outsideSd>>

NextSd ==
    \/ \E c \in Connections : Connect(c)
    \/ \E c \in Connections : Complete(c)
    \/ Signal
    \/ CloseEvent
    \/ ForceTimeout
    \/ ShutdownContinues
    \/ MainContinues
    \/ TickSd

SpecSd == InitSd /\ [][NextSd]_vars

(***************************************************************************)
(* Shutdown: properties                                                    *)
(***************************************************************************)
Exited == exitCode # -1

\* the force-close timeout has run out since the signal
ForceCloseElapsed == TimerDue \/ (signalled /\ Len(forceTimers) < 2)

\* C17: once the process has exited on SIGTERM or SIGINT, it had stopped accepting
\* connections, the requests in flight had completed or the force-close timeout had run
\* out, the persistence adapter is disconnected and the health-check and sweep timers are
\* cancelled.
C17_CleanShutdownBeforeExit ==
    (signalled /\ Exited) =>
        /\ ~accepting
        /\ inflight = {} \/ ForceCloseElapsed
        /\ ~adapterConnected
        /\ activeTimers = {}

(***************************************************************************)
(* TraktService.makeRequest: attempts and retries of an upstream operation *)
(***************************************************************************)
maxRetries == 3

UpStatuses == {200, 400, 401, 403, 429, 500, 504}

\* what the upstream does to one attempt: a response (whose body may fail JSON.parse), an
\* 'error' event of the request, or the 'timeout' event, after which req.destroy() may make
\* the request emit 'error' with the message "socket hang up"
UpEvents ==
    {[type |-> "response", status |-> st, json |-> TRUE, code |-> "none"] : st \in UpStatuses}
        \cup {[type |-> "response", status |-> st, json |-> FALSE, code |-> "none"] :
                  st \in {200, 429}}
        \cup {[type |-> "error", status |-> 0, json |-> FALSE, code |-> c] :
                  c \in {"ECONNRESET", "EPIPE"}}
        \cup {[type |-> "timeout", status |-> 0, json |-> FALSE, code |-> c] :
                  c \in {"none", "socket hang up"}}

\* new Error(errorMessage): no statusCode; the message of a rejected response names the status
PlainError(mentions) == [kind |-> "Error", statusCode |-> 0, mentions |-> mentions]

isRetryableError(message) ==
    message \in {"ECONNRESET", "ECONNREFUSED", "ETIMEDOUT", "ENOTFOUND", "EAI_AGAIN"}

canRetry_inclusive(count) == count <= maxRetries
canRetry(count) == count < maxRetries

Outcome(retry, settle, error) == [retry |-> retry, settle |-> settle, error |-> error]

\* res.on('end')
onEnd(ev, count) ==
    IF ~ev.json THEN Outcome(FALSE, "rejected", PlainError(0))
    ELSE IF ev.status \in {200, 201} THEN Outcome(FALSE, "resolved", NoUpError)
    ELSE IF ev.status = 429 /\ canRetry(count) THEN Outcome(TRUE, "none", NoUpError)
    ELSE IF ev.status \in {500, 502, 503} /\ canRetry(count)
         THEN Outcome(TRUE, "none", NoUpError)
    ELSE Outcome(FALSE, "rejected", PlainError(ev.status))

\* req.on('error')
onError(ev, count) ==
    IF canRetry(count) /\ isRetryableError(ev.code) THEN Outcome(TRUE, "none", NoUpError)
    ELSE Outcome(FALSE, "rejected", PlainError(0))

\* req.on('timeout'), and the 'error' handler when req.destroy() makes the request emit one
onTimeout(ev, count) ==
    IF canRetry(count)
    THEN IF ev.code = "none" THEN Outcome(TRUE, "none", NoUpError)
         ELSE Outcome(TRUE, onError(ev, count).settle, onError(ev, count).error)
    ELSE Outcome(FALSE, "rejected", PlainError(0))

\* the status of the proxy's response once the operation has settled
replyStatus(endpoint, as, error) ==
    IF as = "resolved" THEN 200
    ELSE IF endpoint = "/trakt/device-token" /\ error.mentions = 400 THEN 400
    ELSE handleError(error)

InitUp ==
    /\ now = 0
    /\ database = "none"
    /\ RLIdle
    /\ DbIdle
    /\ TcIdle
    /\ ExIdle
    /\ ChIdle
    /\ CoIdle
    /\ SdIdle
    /\ UpIdle
    /\ StIdle
    /\ OxIdle
    /\ InIdle
    /\ SlIdle
    /\ RcIdle
    /\ EqIdle
    /\ AkIdle
    /\ BlIdle
    /\ MaIdle
    /\ TrIdle

\* a controller calls the service: makeRequest(options) with retryCount = 0
StartOperation(endpoint) ==
    /\ upPc \in {"idle", "done"}
    /\ upOps < MaxUpOps
    /\ upOps' = upOps + 1
    /\ upEndpoint' = endpoint
    /\ upPc' = "inflight"
    /\ retryCount' = 0
    /\ attempts' = 1
    /\ settled' = "pending"
    /\ upError' = NoUpError
    /\ upHistory' = <<>>
    /\ upReply' = 0
    /\ UNCHANGED <<now, outsideUp>>

\* the handlers of one attempt have run with this outcome; resolve and reject have no
\* effect on a promise that is already settled
Handled(ev, outcome) ==
    /\ upPc = "inflight"
    /\ upHistory' = Append(upHistory, ev)
    /\ upPc' = IF outcome.retry THEN "scheduled" ELSE "done"
    /\ IF settled = "pending" /\ outcome.settle # "none"
       THEN /\ settled' = outcome.settle
            /\ upError' = outcome.error
            /\ upReply' = replyStatus(upEndpoint, outcome.settle, outcome.error)
       ELSE UNCHANGED <<settled, upError, upReply>>
    /\ UNCHANGED <<now, upOps, upEndpoint, retryCount, attempts, outsideUp>>

UpstreamResponds(ev) == ev.type = "response" /\ Handled(ev, onEnd(ev, retryCount))

RequestError(ev) == ev.type = "error" /\ Handled(ev, onError(ev, retryCount))

RequestTimeout(ev) == ev.type = "timeout" /\ Handled(ev, onTimeout(ev, retryCount))

\* the setTimeout callback: makeRequest(options, retryCount + 1)
RetryTimer ==
    /\ upPc = "scheduled"
    /\ attempts < MaxAttempts
    /\ upPc' = "inflight"
    /\ retryCount' = retryCount + 1
    /\ attempts' = attempts + 1
    /\ UNCHANGED <<now, upOps, upEndpoint, settled, upError, upHistory, upReply, outsideUp>>

NextUp ==
    \/ \E endpoint \in Endpoints : StartOperation(endpoint)
    \/ \E ev \in UpEvents : UpstreamResponds(ev)
    \/ \E ev \in UpEvents : RequestError(ev)
    \/ \E ev \in UpEvents : RequestTimeout(ev)
    \/ RetryTimer

SpecUp == InitUp /\ [][NextUp]_vars

(***************************************************************************)
(* TraktService.makeRequest: properties                                    *)
(***************************************************************************)
\* C18: an upstream operation makes at most 1 + 3 attempts, whatever 429 and 5xx responses,
\* timeouts and transport errors the upstream produces, and it has settled (resolved or
\* rejected) once no attempt is in flight and no retry is scheduled.
C18_SettlesWithinRetryCap ==
    /\ attempts <= 1 + maxRetries
    /\ retryCount <= maxRetries
    /\ upPc = "done" => settled \in {"resolved", "rejected"}

\* the cap is reached: three retries after 429, 5xx, timeout or transport error, and the
\* fourth attempt has settled the operation
C18_Witness ==
    /\ upPc = "done"
    /\ attempts = 1 + maxRetries
    /\ Len(upHistory) = 1 + maxRetries
    /\ settled = "rejected"
    /\ \E i \in 1..maxRetries : upHistory[i].type = "timeout"
    /\ \E i \in 1..maxRetries : upHistory[i].status \in {429, 500}

NonRetryable == {400, 401, 403}

\* C19: an operation rejected for an upstream 400, 401 or 403 response was not retried after
\* that response, its error is a typed upstream error carrying that status code, and the
\* proxy's response has the same status code.
C19_NonRetryableSurfacedTyped ==
    (settled = "rejected" /\ upError.mentions \in NonRetryable) =>
        /\ upPc = "done"
        /\ upHistory[Len(upHistory)].status = upError.mentions
        /\ upError.kind = "TraktApiError"
        /\ upError.statusCode = upError.mentions
        /\ upReply = upError.mentions

(***************************************************************************)
(* TokenCacheService: refreshToken and invalidateToken                     *)
(***************************************************************************)
\* TokenCacheService.refreshToken: look the token up, then write the update to the adapter
\* when there is one and to memoryCache; a failed adapter write lands in the catch block
refreshToken(cache, rows, b, hasDb, readOk, writeOk, code, resp, t, st) ==
    LET cacheKey == generateCacheKey(code)
        g == getCachedToken(cache, rows, b, hasDb, readOk, code, t, st)
        updatedToken == MakeCachedToken(resp, t)
    IN  IF g.token = NullToken
        THEN [returned |-> FALSE, found |-> FALSE, mem |-> g.mem, rows |-> g.rows,
              stats |-> g.stats, token |-> NullToken]
        ELSE IF hasDb /\ ~writeOk
        THEN [returned |-> FALSE, found |-> TRUE, mem |-> g.mem, rows |-> g.rows,
              stats |-> g.stats, token |-> updatedToken]
        ELSE [returned |-> TRUE, found |-> TRUE,
              mem |-> MapSet(g.mem, Row("memory", cacheKey, updatedToken)),
              rows |-> IF hasDb THEN storeToken(b, g.rows, cacheKey, updatedToken, t)
                       ELSE g.rows,
              stats |-> g.stats, token |-> updatedToken]

\* variant: the entry of memoryCache is left in place
invalidateToken_keepmemory(cache, rows, hasDb, deleteOk, code) ==
    LET cacheKey == generateCacheKey(code)
        d == deleteToken(rows, cacheKey)
        dbResult == hasDb /\ deleteOk /\ d.existed
    IN  [returned |-> dbResult,
         mem |-> cache,
         rows |-> IF hasDb /\ deleteOk THEN d.rows ELSE rows]

\* TokenCacheService.invalidateToken: an error of the adapter's deleteToken is caught and
\* logged
invalidateToken(cache, rows, hasDb, deleteOk, code) ==
    LET cacheKey == generateCacheKey(code)
        d == deleteToken(rows, cacheKey)
        dbResult == hasDb /\ deleteOk /\ d.existed
        memoryResult == MapGet(cache, cacheKey) # NoRow
    IN  [returned |-> dbResult \/ memoryResult,
         mem |-> MapDelete(cache, cacheKey),
         rows |-> IF hasDb /\ deleteOk THEN d.rows ELSE rows]

\* the TraktTokenResponse objects handed to the service, one with a negative expires_in
TrResponses ==
    TokenResponses \cup
        {[access_token |-> "tok3", refresh_token |-> "undefined", expires_in |-> -2]}

\* memoryCache after maxCacheSize tokens were stored in it for other codes
FullCache ==
    [i \in 1..maxCacheSize |->
        Row("memory", <<"p1", "p2", "p3", "p4", "p5", "p6">>[i],
            CachedToken("tok0", "undefined", NoInt, 0, MaxTrTime + 1))]

InitTR ==
    /\ now = 0
    /\ OutsideTCIdle
    /\ database \in {"none", "flaky"}
    /\ backend \in IF database = "none" THEN {"memory"} ELSE {"memory", "sqlite"}
    /\ tokens = {}
    /\ memoryCache \in {<<>>, FullCache}
    /\ stats = NoStats
    /\ tcOps = 0
    /\ lastCache = NoCache
    /\ lastLookup = NoLookup
    /\ ExIdle
    /\ ChIdle
    /\ CoIdle
    /\ SdIdle
    /\ UpIdle
    /\ StIdle
    /\ OxIdle
    /\ InIdle
    /\ SlIdle
    /\ RcIdle
    /\ EqIdle
    /\ AkIdle
    /\ BlIdle
    /\ MaIdle
    /\ TrIdle

outsideTR == <<memoryStore, rateLimits, refStore, rlHist, lastCheck, dbOps, lastGet, upsert,
               tcOps, exVars, chVars, coVars, sdVars, upVars, maVars, blVars, akVars, eqVars, rcVars, slVars, inVars, oxVars, stVars>>

CacheToken(code, resp, writeOk) ==
    /\ trOps < MaxTrOps
    /\ AdapterMay(writeOk)
    /\ trOps' = trOps + 1
    /\ LET c == cacheToken(memoryCache, tokens, backend, database # "none", writeOk,
                           code, resp, now)
       IN  /\ memoryCache' = c.mem
           /\ tokens' = c.rows
           /\ lastCache' = [code |-> code, token |-> c.token, threw |-> c.threw]
    /\ invalidated' = {r \in invalidated : r.code # code}
    /\ UNCHANGED <<now, database, backend, stats, lastLookup, lastRefresh, lastInvalidate,
                   outsideTR>>

GetCachedToken(code, readOk) ==
    /\ trOps < MaxTrOps
    /\ AdapterMay(readOk)
    /\ trOps' = trOps + 1
    /\ LET g == getCachedToken(memoryCache, tokens, backend, database # "none", readOk,
                               code, now, stats)
       IN  /\ memoryCache' = g.mem
           /\ tokens' = g.rows
           /\ stats' = g.stats
           /\ lastLookup' = [code |-> code, t |-> now, token |-> g.token,
                             threw |-> g.threw, after |-> lastCache]
    /\ lastCache' = NoCache
    /\ UNCHANGED <<now, database, backend, lastRefresh, lastInvalidate, invalidated,
                   outsideTR>>

RefreshToken(code, resp, readOk, writeOk) ==
    /\ trOps < MaxTrOps
    /\ AdapterMay(readOk)
    /\ AdapterMay(writeOk)
    /\ trOps' = trOps + 1
    /\ LET r == refreshToken(memoryCache, tokens, backend, database # "none", readOk,
                             writeOk, code, resp, now, stats)
       IN  /\ memoryCache' = r.mem
           /\ tokens' = r.rows
           /\ stats' = r.stats
           /\ lastRefresh' = [code |-> code, found |-> r.found, returned |-> r.returned,
                              token |-> r.token, writeOk |-> writeOk,
                              memBefore |-> memoryCache, rowsBefore |-> tokens,
                              memAfter |-> r.mem, rowsAfter |-> r.rows, t |-> now]
    /\ UNCHANGED <<now, database, backend, lastCache, lastLookup, lastInvalidate,
                   invalidated, outsideTR>>

InvalidateToken(code, deleteOk) ==
    /\ trOps < MaxTrOps
    /\ AdapterMay(deleteOk)
    /\ trOps' = trOps + 1
    /\ LET cacheKey == generateCacheKey(code)
           v == invalidateToken(memoryCache, tokens, database # "none", deleteOk, code)
           deleted == database = "none" \/ deleteOk
       IN  /\ memoryCache' = v.mem
           /\ tokens' = v.rows
           /\ lastInvalidate' = [code |-> code,
                                 inDb |-> database # "none" /\ RowsFor(tokens, cacheKey) # {},
                                 inMemory |-> MapGet(memoryCache, cacheKey) # NoRow,
                                 returned |-> v.returned, deleted |-> deleted,
                                 leftInDb |-> database # "none"
                                                  /\ RowsFor(v.rows, cacheKey) # {},
                                 leftInMemory |-> MapGet(v.mem, cacheKey) # NoRow]
           /\ invalidated' = {r \in invalidated : r.code # code}
                                 \cup {[code |-> code, deleted |-> deleted]}
    /\ UNCHANGED <<now, database, backend, stats, lastCache, lastLookup, lastRefresh,
                   outsideTR>>

TickTR ==
    /\ now < MaxTrTime
    /\ Tick
    /\ UNCHANGED <<rlVars, dbVars, tcVars, exVars, chVars, coVars, sdVars, upVars, trVars, maVars, blVars, akVars, eqVars, rcVars, slVars, inVars, oxVars, stVars>>

\* the authorization code the calls are made for; FullCache holds the tokens of others
TrCodes == {"c1"}

NextTR ==
    \/ \E code \in TrCodes : \E resp \in TrResponses : \E ok \in BOOLEAN :
            CacheToken(code, resp, ok)
    \/ \E code \in TrCodes : \E ok \in BOOLEAN : GetCachedToken(code, ok)
    \/ \E code \in TrCodes : \E resp \in TrResponses : \E readOk, writeOk \in BOOLEAN :
            RefreshToken(code, resp, readOk, writeOk)
    \/ \E code \in TrCodes : \E ok \in BOOLEAN : InvalidateToken(code, ok)
    \/ TickTR

SpecTR == InitTR /\ [][NextTR]_vars

(***************************************************************************)
(* TokenCacheService: properties of the in-process store, refresh and      *)
(* invalidation                                                            *)
(***************************************************************************)
\* C21: after any sequence of cacheToken, getCachedToken, refreshToken and invalidateToken
\* calls the in-process store holds at most maxCacheSize entries.
C21_MemoryCacheBounded == Len(memoryCache) <= maxCacheSize

\* what getCachedToken(code) returns in the current state, for each way the adapter may act
LookupsNow(code) ==
    {getCachedToken(memoryCache, tokens, backend, database # "none", readOk, code, now,
                    stats).token : readOk \in {ok \in BOOLEAN : AdapterMay(ok)}}

InDurableStore(code) == database # "none" /\ RowsFor(tokens, generateCacheKey(code)) # {}
InMemoryCache(code) == MapGet(memoryCache, generateCacheKey(code)) # NoRow

LookupsAfterRefresh ==
    {getCachedToken(lastRefresh.memAfter, lastRefresh.rowsAfter, backend,
                    database # "none", readOk, lastRefresh.code, lastRefresh.t,
                    NoStats).token : readOk \in {ok \in BOOLEAN : AdapterMay(ok)}}

\* the entries a store holds that have not expired at time t
LiveRows(rows, t) == {r \in rows : r.expires_at > t}
LiveEntries(cache, t) == {cache[i] : i \in {j \in 1..Len(cache) : cache[j].expires_at > t}}

\* C24: refreshToken(k, t') returns false and changes no unexpired entry of either store when
\* no unexpired entry for k exists; when one exists it returns true and the new token, with
\* its new expiry, is what a lookup of k returns, also when the adapter's write fails.
C24_RefreshDualWrite ==
    lastRefresh.code # "none" =>
        IF ~lastRefresh.found
        THEN /\ ~lastRefresh.returned
             /\ LiveEntries(lastRefresh.memAfter, lastRefresh.t)
                    = LiveEntries(lastRefresh.memBefore, lastRefresh.t)
             /\ LiveRows(lastRefresh.rowsAfter, lastRefresh.t)
                    = LiveRows(lastRefresh.rowsBefore, lastRefresh.t)
        ELSE /\ lastRefresh.returned
             /\ lastRefresh.token.expires_at > lastRefresh.t =>
                    \A got \in LookupsAfterRefresh : SameToken(got, lastRefresh.token)

WrittenTokens ==
    (IF lastCache.code # "none" THEN {lastCache.token} ELSE {})
        \cup (IF lastRefresh.returned THEN {lastRefresh.token} ELSE {})

\* C27: every CachedToken written by cacheToken or refreshToken has expires_at > cached_at,
\* with expires_at = cached_at + expires_in seconds when the response carries expires_in
\* and cached_at + the default TTL when it does not.
C27_ExpiresAfterCached ==
    \A token \in WrittenTokens :
        /\ token.expires_at > token.cached_at
        /\ token.expires_at = token.cached_at +
               (IF token.expires_in = NoInt THEN tokenCacheTtl ELSE token.expires_in)
                   * MsPerSecond

(***************************************************************************)
(* MemoryAdapter: rate-limit entries and request logs                      *)
(***************************************************************************)
\* the identities rate-limit entries are written for: one more than the adapter's limit
MaKeys == 1..(maxRateLimits + 1)

\* MemoryAdapter.cleanupRateLimits: delete the entries whose window started before cutoff
cleanupRateLimits(entries, cutoff) == {e \in entries : ~(e.windowStart < cutoff)}

\* MemoryAdapter.setRateLimit: at the limit, sweep the entries older than an hour; then set
setRateLimit(entries, key, windowStart, t) ==
    LET swept == IF Cardinality(entries) >= maxRateLimits
                 THEN cleanupRateLimits(entries, t - HourMs)
                 ELSE entries
    IN  {e \in swept : e.key # key} \cup {[key |-> key, windowStart |-> windowStart]}

\* MemoryAdapter.logRequest: push, then splice the excess off the front
logRequest(logs, entry) ==
    LET pushed == Append(logs, entry)
        excess == Len(pushed) - maxLogs
    IN  IF Len(pushed) > maxLogs THEN SubSeq(pushed, excess + 1, Len(pushed)) ELSE pushed

InitMA ==
    /\ now = 0
    /\ database = "none"
    /\ RLIdle
    /\ DbIdle
    /\ TcIdle
    /\ ExIdle
    /\ ChIdle
    /\ CoIdle
    /\ SdIdle
    /\ UpIdle
    /\ StIdle
    /\ OxIdle
    /\ InIdle
    /\ SlIdle
    /\ RcIdle
    /\ EqIdle
    /\ AkIdle
    /\ BlIdle
    /\ TrIdle
    /\ MaIdle

outsideMA == <<rlVars, dbVars, tcVars, exVars, chVars, coVars, sdVars, upVars, trVars, blVars, akVars, eqVars, rcVars, slVars, inVars, oxVars, stVars>>

\* the rate limiter stores the entry of an identity: a window that starts now, or the
\* window the identity's entry already has
SetRateLimit(key, fresh) ==
    /\ maOps < MaxMaOps
    /\ maOps' = maOps + 1
    /\ LET held == {e \in maRateLimits : e.key = key}
           windowStart == IF fresh \/ held = {} THEN now
                          ELSE (CHOOSE e \in held : TRUE).windowStart
       IN  maRateLimits' = setRateLimit(maRateLimits, key, windowStart, now)
    /\ UNCHANGED <<now, maLogs, outsideMA>>

LogRequest ==
    /\ maOps < MaxMaOps
    /\ maOps' = maOps + 1
    /\ maLogs' = logRequest(maLogs, [timestamp |-> now, n |-> maOps])
    /\ UNCHANGED <<now, maRateLimits, outsideMA>>

TickMA ==
    /\ now < MaxMaTime
    /\ now' = now + 1
    /\ UNCHANGED <<maVars, outsideMA>>

NextMA ==
    \/ \E key \in MaKeys : \E fresh \in BOOLEAN : SetRateLimit(key, fresh)
    \/ LogRequest
    \/ TickMA

SpecMA == InitMA /\ [][NextMA]_vars

(***************************************************************************)
(* MemoryAdapter: properties                                               *)
(***************************************************************************)
\* C22: after any sequence of operations the in-memory adapter holds at most maxRateLimits
\* rate-limit entries and at most maxLogs log entries.
C22_AdapterCaps ==
    /\ Cardinality(maRateLimits) <= maxRateLimits
    /\ Len(maLogs) <= maxLogs

\* ---------------------------------------------------------------------
\* RateLimitService.blockIp / unblockIp / isBlocked
\* (src/services/ratelimit-service.ts 212-268)
\* ---------------------------------------------------------------------

\* bounds of the block / unblock runs
MaxBlOps == 3
MaxBlTime == 5

\* the durations a caller asks for: shorter and longer than the window
BlockDurations == {1, 2 * rateLimitWindowMs}

\* blockIp: a counter already past the limit, window opened now; the end
\* of the block is kept in lastRequest only
blockEntry(t, durationMs) ==
    [requests |-> rateLimitMaxRequests + 1, windowStart |-> t, lastRequest |-> t + durationMs]

blockIp(mem, db, hasDb, writeOk, ip, t, durationMs) ==
    storeRateLimit(mem, db, hasDb, writeOk, ip, blockEntry(t, durationMs))

\* isBlocked: the entry of the adapter, or of the memory store when there
\* is no adapter or the read throws; blocked = in window and past the limit
isBlocked(mem, db, hasDb, readOk, ip, t) ==
    LET entry == IF hasDb /\ readOk THEN db[ip] ELSE mem[ip]
    IN  /\ entry # NoEntry
        /\ (t - entry.windowStart) < rateLimitWindowMs
        /\ entry.requests > rateLimitMaxRequests

\* unblockIp: database.deleteToken(ip) when there is an adapter (a thrown
\* error is logged), then memoryStore.delete(ip); the rate-limit table of
\* the adapter is not touched
unblockIp(mem, db, rows, hasDb, deleteOk, ip) ==
    LET d == deleteToken(rows, ip)
        inDb == hasDb /\ deleteOk /\ d.existed
        inMem == mem[ip] # NoEntry
    IN  [mem |-> [mem EXCEPT ![ip] = NoEntry],
         db |-> db,
         rows |-> IF hasDb /\ deleteOk THEN d.rows ELSE rows,
         returned |-> (inDb \/ inMem)]

InitBl ==
    /\ now = 0
    /\ DbIdle
    /\ TcIdle
    /\ ExIdle
    /\ ChIdle
    /\ CoIdle
    /\ SdIdle
    /\ UpIdle
    /\ StIdle
    /\ OxIdle
    /\ InIdle
    /\ SlIdle
    /\ RcIdle
    /\ EqIdle
    /\ AkIdle
    /\ TrIdle
    /\ MaIdle
    /\ BlIdle
    /\ database \in {"none", "ok", "fail"}
    /\ memoryStore = EmptyStore
    /\ rateLimits = EmptyStore
    /\ refStore = EmptyStore
    /\ rlHist = [k \in Ips |-> <<>>]
    /\ lastCheck = NoCheck

outsideBl == <<refStore, rlHist, lastCheck, backend, dbOps, lastGet, upsert, tcVars, exVars,
               chVars, coVars, sdVars, upVars, trVars, maVars, akVars, eqVars, rcVars, slVars, inVars, oxVars, stVars>>

BlockIp(ip, durationMs) ==
    /\ blOps < MaxBlOps
    /\ LET r == blockIp(memoryStore, rateLimits, database # "none", database = "ok",
                        ip, now, durationMs)
       IN  /\ memoryStore' = r.mem
           /\ rateLimits' = r.db
    /\ blocks' = [blocks EXCEPT ![ip] = [at |-> now, until |-> now + durationMs]]
    /\ lastUnblock' = NoUnblock
    /\ blOps' = blOps + 1
    /\ UNCHANGED <<now, database, tokens, lastBlCheck, outsideBl>>

UnblockIp(ip) ==
    /\ blOps < MaxBlOps
    /\ LET r == unblockIp(memoryStore, rateLimits, tokens, database # "none",
                          database = "ok", ip)
       IN  /\ memoryStore' = r.mem
           /\ rateLimits' = r.db
           /\ tokens' = r.rows
           /\ lastUnblock' = [ip |-> ip, returned |-> r.returned,
                              existed |-> Consulted(ip) # NoEntry,
                              wasBlocked |-> blocks[ip] # NoBlock]
    /\ blocks' = [blocks EXCEPT ![ip] = NoBlock]
    /\ blOps' = blOps + 1
    /\ UNCHANGED <<now, database, lastBlCheck, outsideBl>>

CheckBlocked(ip) ==
    /\ blOps < MaxBlOps
    /\ LET r == checkRateLimit(memoryStore, rateLimits, database # "none",
                               database = "ok", database = "ok", ip, now)
       IN  /\ memoryStore' = r.mem
           /\ rateLimits' = r.db
           /\ lastBlCheck' = [ip |-> ip, t |-> now, allowed |-> r.allowed,
                              blockedUntil |-> blocks[ip].until]
    /\ lastUnblock' = NoUnblock
    /\ blOps' = blOps + 1
    /\ UNCHANGED <<now, database, tokens, blocks, outsideBl>>

TickBl ==
    /\ now < MaxBlTime
    /\ now' = now + 1
    /\ UNCHANGED <<rlVars, dbVars, tcVars, exVars, chVars, coVars, sdVars, upVars, trVars,
                   maVars, blVars, akVars, eqVars, rcVars, slVars, inVars, oxVars, stVars>>

NextBl ==
    \/ \E ip \in Ips, d \in BlockDurations : BlockIp(ip, d)
    \/ \E ip \in Ips : UnblockIp(ip)
    \/ \E ip \in Ips : CheckBlocked(ip)
    \/ TickBl

SpecBl == InitBl /\ [][NextBl]_vars

\* what isBlocked answers now
IsBlockedNow(ip) ==
    isBlocked(memoryStore, rateLimits, database # "none", database = "ok", ip, now)

\* what a checkRateLimit call made now would answer
CheckNow(ip) ==
    checkRateLimit(memoryStore, rateLimits, database # "none", database = "ok",
                   database = "ok", ip, now).allowed

\* C25: after blockIp(ip, durationMs) at time t, at every time before
\* t + durationMs isBlocked(ip) is true and checkRateLimit(ip) is false,
\* also when durationMs is longer than the rate-limit window
C25_BlockedForDuration ==
    /\ \A ip \in Ips :
          (blocks[ip] # NoBlock /\ now < blocks[ip].until) =>
              (IsBlockedNow(ip) /\ ~CheckNow(ip))
    /\ (lastBlCheck # NoBlCheck /\ lastBlCheck.t < lastBlCheck.blockedUntil) =>
          ~lastBlCheck.allowed

\* C26: right after unblockIp(ip) on a blocked identity, with or without a
\* durable adapter, isBlocked(ip) is false and the next checkRateLimit(ip)
\* is true; unblockIp returned true exactly when a rate-limit entry for ip
\* existed; no token record was changed
C26_UnblockClears ==
    lastUnblock # NoUnblock =>
        /\ lastUnblock.wasBlocked => (~IsBlockedNow(lastUnblock.ip) /\ CheckNow(lastUnblock.ip))
        /\ lastUnblock.returned = lastUnblock.existed
        /\ tokens = {}


\* ---------------------------------------------------------------------
\* The fixed window of RateLimitService.checkRateLimit over a run of calls
\* of one identity, with an adapter of which any call may fail
\* (src/services/ratelimit-service.ts 36-115, 160-190)
\* ---------------------------------------------------------------------

\* bounds of the fixed-window runs
MaxFwCalls == 4
MaxFwTime == 4

FwIp == "ip1"

\* what one adapter call may do: succeed, or also throw when the adapter is flaky
FwOutcomes == IF database = "flaky" THEN BOOLEAN ELSE {TRUE}

InitFW ==
    /\ now = 0
    /\ DbIdle
    /\ TcIdle
    /\ ExIdle
    /\ ChIdle
    /\ CoIdle
    /\ SdIdle
    /\ UpIdle
    /\ StIdle
    /\ OxIdle
    /\ InIdle
    /\ SlIdle
    /\ RcIdle
    /\ EqIdle
    /\ AkIdle
    /\ TrIdle
    /\ MaIdle
    /\ BlIdle
    /\ database \in {"none", "ok", "flaky"}
    /\ memoryStore = EmptyStore
    /\ rateLimits = EmptyStore
    /\ refStore = EmptyStore
    /\ rlHist = [k \in Ips |-> <<>>]
    /\ lastCheck = NoCheck

\* one checkRateLimit call; the record keeps the entry the call computed
FwCheck(readOk, writeOk) ==
    /\ Len(rlHist[FwIp]) < MaxFwCalls
    /\ readOk \in FwOutcomes
    /\ writeOk \in FwOutcomes
    /\ LET hasDb == database # "none"
           r == checkRateLimit(memoryStore, rateLimits, hasDb, readOk, writeOk, FwIp, now)
           after == IF hasDb /\ readOk /\ writeOk THEN r.db[FwIp] ELSE r.mem[FwIp]
       IN  /\ memoryStore' = r.mem
           /\ rateLimits' = r.db
           /\ rlHist' = [rlHist EXCEPT ![FwIp] =
                            Append(@, [t |-> now, allowed |-> r.allowed, after |-> after,
                                       ok |-> (readOk /\ writeOk)])]
    /\ UNCHANGED <<now, database, refStore, lastCheck, outsideRL>>

\* the 5-minute timer: cleanup(now - window) on the memory store and, when
\* there is an adapter, on its table (a rejected adapter call is logged)
FwCleanupTimer(ok) ==
    /\ ok \in FwOutcomes
    /\ memoryStore[FwIp] # NoEntry \/ rateLimits[FwIp] # NoEntry
    /\ memoryStore' = cleanup(memoryStore, now - rateLimitWindowMs)
    /\ rateLimits' = IF database # "none" /\ ok
                     THEN cleanup(rateLimits, now - rateLimitWindowMs) ELSE rateLimits
    /\ UNCHANGED <<now, database, refStore, rlHist, lastCheck, outsideRL>>

TickFW ==
    /\ now < MaxFwTime
    /\ now' = now + 1
    /\ UNCHANGED <<rlVars, outsideRL>>

NextFW ==
    \/ \E readOk \in BOOLEAN, writeOk \in BOOLEAN : FwCheck(readOk, writeOk)
    \/ \E ok \in BOOLEAN : FwCleanupTimer(ok)
    \/ TickFW

SpecFW == InitFW /\ [][NextFW]_vars

\* the calls of the identity so far
FwCalls == rlHist[FwIp]

\* a call that left a fresh entry: count 1, window opened at the call
IsReset(c) == c.after = NewEntry(c.t)

\* a call that counted on: the previous entry with one more request
CountsOn(prev, c) ==
    c.after = [requests |-> prev.after.requests + 1,
               windowStart |-> prev.after.windowStart, lastRequest |-> c.t]

AllowedIn(i, j) == Cardinality({k \in i..j : FwCalls[k].allowed})

\* the counter is reset entirely once the window has elapsed and is
\* counted on otherwise; at most max calls are allowed between two resets
\* and at most 2 x max in any stretch of time of length window
FixedWindow ==
    /\ \A i \in 1..Len(FwCalls) :
          IF i = 1 \/ FwCalls[i].t - FwCalls[i - 1].after.windowStart > rateLimitWindowMs
          THEN IsReset(FwCalls[i])
          ELSE CountsOn(FwCalls[i - 1], FwCalls[i])
    /\ \A i \in 1..Len(FwCalls) : \A j \in i..Len(FwCalls) :
          /\ (\A k \in (i + 1)..j : ~IsReset(FwCalls[k])) =>
                AllowedIn(i, j) <= rateLimitMaxRequests
          /\ FwCalls[j].t - FwCalls[i].t <= rateLimitWindowMs =>
                AllowedIn(i, j) <= 2 * rateLimitMaxRequests

\* C28 as stated: for one identity the counter is reset entirely when a
\* window elapses, at most 2 x max calls are allowed in any interval of
\* length window and at most max between two consecutive resets
C28_FixedWindowBurst == FixedWindow

\* every adapter call made for the calls so far succeeded (or there is no adapter)
AdapterHeld == \A i \in 1..Len(FwCalls) : FwCalls[i].ok

\* C28, amended: the same, for a limiter without adapter or whose adapter
\* calls all succeed
C28_FixedWindowBurstWhileAdapterHolds == AdapterHeld => FixedWindow

\* more than max calls allowed within one window length, across a reset
C28_Witness ==
    /\ AdapterHeld
    /\ \E i \in 1..Len(FwCalls) : \E j \in i..Len(FwCalls) :
          /\ FwCalls[j].t - FwCalls[i].t <= rateLimitWindowMs
          /\ AllowedIn(i, j) > rateLimitMaxRequests
          /\ \E k \in (i + 1)..j : IsReset(FwCalls[k])


\* ---------------------------------------------------------------------
\* SecurityUtils.verifyApiKey, byte by byte (src/routes/index.ts 276-294)
\* and AuthMiddleware.authenticate (src/middleware/auth-middleware.ts 34-42)
\* ---------------------------------------------------------------------

\* bounds of the key verification runs
DigestLen == 3
MaxAkOps == 4

\* the keys a request may carry; "null" is no key at all
AkKeys == ApiKeys \cup {"worse-key", "null"}

\* the values config.apiKeyHash may hold: the digest of the key, or that
\* digest cut short by one byte
ConfiguredHashes == {apiKeyHash, "digest-1-short"}

\* Buffer.from(h, 'hex'): the bytes of a digest.  The digest of bad-key
\* differs from the one of good-key in its last byte, every other digest
\* in its first byte
fromHex(h) ==
    CASE h = "digest-1" -> [i \in 1..DigestLen |-> 1]
      [] h = "digest-1-short" -> [i \in 1..(DigestLen - 1) |-> 1]
      [] h = "digest-2" -> [i \in 1..DigestLen |-> IF i = DigestLen THEN 0 ELSE 1]
      [] OTHER -> [i \in 1..DigestLen |-> IF i = 1 THEN 0 ELSE 1]

\* the positions at which two byte strings differ
Mismatches(a, b) == {i \in 1..Len(a) : a[i] # b[i]}

FirstMismatch(a, b) == CHOOSE i \in Mismatches(a, b) : \A j \in Mismatches(a, b) : i <= j

\* variant: a comparison that returns at the first byte that differs
timingSafeEqual_earlyexit(a, b) ==
    IF Len(a) # Len(b)
    THEN [threw |-> TRUE, equal |-> FALSE, compared |-> <<>>]
    ELSE [threw |-> FALSE, equal |-> Mismatches(a, b) = {},
          compared |-> IF Mismatches(a, b) = {} THEN [i \in 1..Len(a) |-> i]
                       ELSE [i \in 1..FirstMismatch(a, b) |-> i]]

\* crypto.timingSafeEqual: throws on buffers of different length, else
\* visits every byte whatever the bytes are
timingSafeEqual(a, b) ==
    IF Len(a) # Len(b)
    THEN [threw |-> TRUE, equal |-> FALSE, compared |-> <<>>]
    ELSE [threw |-> FALSE, equal |-> Mismatches(a, b) = {},
          compared |-> [i \in 1..Len(a) |-> i]]

\* SecurityUtils.verifyApiKey with the bytes it visits: hash, decode both
\* digests, compare; the catch block answers false
verifyApiKeyRun(providedKey, hash) ==
    LET providedKeyHash == hashApiKey(providedKey)
        r == timingSafeEqual(fromHex(providedKeyHash), fromHex(hash))
    IN  [key |-> providedKey, digest |-> fromHex(providedKeyHash),
         compared |-> r.compared, result |-> (~r.threw /\ r.equal)]

InitAk ==
    /\ now = 0
    /\ RLIdle
    /\ DbIdle
    /\ TcIdle
    /\ ExIdle
    /\ ChIdle
    /\ CoIdle
    /\ SdIdle
    /\ UpIdle
    /\ StIdle
    /\ OxIdle
    /\ InIdle
    /\ SlIdle
    /\ RcIdle
    /\ EqIdle
    /\ TrIdle
    /\ MaIdle
    /\ BlIdle
    /\ configuredHash \in ConfiguredHashes
    /\ verified = {}
    /\ akOps = 0
    /\ lastAuth = NoAuth

\* AuthMiddleware.authenticate for a request that carries providedKey
Authenticate(providedKey) ==
    /\ akOps < MaxAkOps
    /\ akOps' = akOps + 1
    /\ IF providedKey \in {"null", ""}
       THEN /\ lastAuth' = [key |-> providedKey, result |-> FALSE]
            /\ UNCHANGED verified
       ELSE LET v == verifyApiKeyRun(providedKey, configuredHash)
            IN  /\ lastAuth' = [key |-> providedKey, result |-> v.result]
                /\ verified' = verified \cup {v}
    /\ UNCHANGED <<now, configuredHash, rlVars, dbVars, tcVars, exVars, chVars, coVars, sdVars,
                   upVars, trVars, maVars, blVars, eqVars, rcVars, slVars, inVars, oxVars,
                   stVars>>

NextAk == \E k \in AkKeys : Authenticate(k)

SpecAk == InitAk /\ [][NextAk]_vars

\* C29: the comparison visits the same bytes for every supplied key whose
\* digest has the same length, wherever the digests first differ, and it
\* answers true exactly when the digest of the supplied key equals the
\* stored digest
C29_ComparisonTimingSafe ==
    /\ \A v, w \in verified : Len(v.digest) = Len(w.digest) => v.compared = w.compared
    /\ \A v \in verified : v.result = (v.digest = fromHex(configuredHash))
    /\ (lastAuth # NoAuth /\ lastAuth.key \notin {"null", ""}) =>
          lastAuth.result = (hashApiKey(lastAuth.key) = configuredHash)

\* the right key and two wrong keys whose digests differ from the stored
\* one at different positions have been compared
C29_Witness ==
    /\ configuredHash = apiKeyHash
    /\ \E v, w, x \in verified :
          /\ v.result
          /\ ~w.result /\ ~x.result
          /\ FirstMismatch(w.digest, fromHex(configuredHash)) #
                FirstMismatch(x.digest, fromHex(configuredHash))


\* ---------------------------------------------------------------------
\* The order of the global middleware (src/routes/index.ts 24-47,
\* src/routes/router.ts 38-97), checked on the chain runs of SpecCh
\* ---------------------------------------------------------------------

\* security headers, body size, sanitization, structural validation,
\* connection abuse, CORS, global rate limiting
StatedOrder ==
    <<"securityHeaders", "requestSize", "inputSanitization", "requestValidation",
      "slowlorisProtection", "cors", "rateLimit">>

RouteSpecific(r) == {Routes[r].middleware[i] : i \in 1..Len(Routes[r].middleware)}

\* C30: for every routed request the global middleware run in the order
\* security headers, body-size validation, input sanitization, structural
\* request validation, connection-abuse protection, CORS, global rate
\* limiting; a route-specific middleware or the handler runs only after
\* all seven
C30_GlobalOrderFirst ==
    route # 0 =>
        /\ \A i \in 1..Len(ran) : i <= Len(StatedOrder) => ran[i] = StatedOrder[i]
        /\ \A i \in 1..Len(ran) : ran[i] \in RouteSpecific(route) => i > Len(StatedOrder)
        /\ handlerRuns > 0 => Len(ran) >= Len(StatedOrder)

\* a request went through the seven global middleware, then through the
\* middleware of its route, and reached the handler
C30_Witness ==
    /\ route # 0
    /\ handlerRuns = 1
    /\ Routes[route].middleware # <<>>
    /\ ran = StatedOrder \o Routes[route].middleware


\* ---------------------------------------------------------------------
\* One response per request (src/unnamed/part_000 203-273,
\* src/routes/router.ts 306-380), on the chain runs of SpecCh
\* ---------------------------------------------------------------------

\* C31: for every request at most one response is written, whatever the
\* order of the 30 s timeout callback, a middleware that writes and the
\* router's final send: once a response is written it stays as it is until
\* the next request, and the timeout callback writes its 408 only when no
\* response has been sent
C31_SingleResponse ==
    [][/\ (headersSent /\ chReqs' = chReqs) =>
              (headersSent' /\ written' = written /\ sentHeaders' = sentHeaders)
       /\ (written' # written /\ written'.by = "timeout") => ~headersSent]_vars

\* the timeout wrote 408 while the handler was at work; the handler then
\* returned a response, which the router did not send
C31_Witness ==
    /\ chPc = "done"
    /\ written = [status |-> 408, by |-> "timeout"]
    /\ handlerRuns = 1
    /\ response # 0


\* ---------------------------------------------------------------------
\* Retries of upstream server errors (src/services/ratelimit-service.ts
\* 451-556), on the operations of SpecUp
\* ---------------------------------------------------------------------

\* C32: every upstream response with a 5xx status received while fewer
\* than 3 retries have been made is retried after a delay and is not
\* surfaced to the caller
C32_ServerErrorsRetried ==
    \A i \in 1..Len(upHistory) :
        (/\ upHistory[i].type = "response"
         /\ upHistory[i].status >= 500
         /\ i - 1 < maxRetries) =>
            (attempts > i \/ upPc = "scheduled")


\* ---------------------------------------------------------------------
\* The token operations of the three adapters, called in lockstep
\* (src/unnamed/part_006 39-95, src/services/database/database-manager.ts
\* 440-506, src/services/database/postgresql-adapter.ts 165-229)
\* ---------------------------------------------------------------------

\* bounds of the lockstep runs
MaxEqOps == 3
MaxEqTime == 2

\* getTokenCount: the size of the Map; SELECT COUNT(*) ... WHERE expires_at > now
getTokenCount(b, rows, t) ==
    IF b = "memory" THEN Cardinality(rows)
    ELSE Cardinality({r \in rows : r.expires_at > t})

\* cleanupExpiredTokens returns the number of rows removed
cleanedCount(rows, t) == Cardinality(rows) - Cardinality(cleanupExpiredTokens(rows, t))

InitEq ==
    /\ now = 0
    /\ RLIdle
    /\ DbIdle
    /\ TcIdle
    /\ ExIdle
    /\ ChIdle
    /\ CoIdle
    /\ SdIdle
    /\ UpIdle
    /\ StIdle
    /\ OxIdle
    /\ InIdle
    /\ SlIdle
    /\ RcIdle
    /\ TrIdle
    /\ MaIdle
    /\ BlIdle
    /\ AkIdle
    /\ EqIdle

outsideEq == <<rlVars, dbVars, tcVars, exVars, chVars, coVars, sdVars, upVars, trVars, maVars,
               blVars, akVars, rcVars, slVars, inVars, oxVars, stVars>>

EqCall(op, key, tables, results) ==
    /\ eqOps' = eqOps + 1
    /\ eqTables' = tables
    /\ eqLast' = [op |-> op, key |-> key, t |-> now, results |-> results]
    /\ UNCHANGED <<now, outsideEq>>

EqStoreToken(key, token) ==
    /\ eqOps < MaxEqOps
    /\ EqCall("storeToken", key,
              [b \in Backends |-> storeToken(b, eqTables[b], key, token, now)],
              [b \in Backends |-> <<>>])

EqGetToken(key) ==
    /\ eqOps < MaxEqOps
    /\ EqCall("getToken", key,
              [b \in Backends |-> getToken(b, eqTables[b], key, now).rows],
              [b \in Backends |-> <<getToken(b, eqTables[b], key, now).token>>])

EqDeleteToken(key) ==
    /\ eqOps < MaxEqOps
    /\ EqCall("deleteToken", key,
              [b \in Backends |-> deleteToken(eqTables[b], key).rows],
              [b \in Backends |-> <<deleteToken(eqTables[b], key).existed>>])

EqCleanupExpiredTokens ==
    /\ eqOps < MaxEqOps
    /\ EqCall("cleanupExpiredTokens", "none",
              [b \in Backends |-> cleanupExpiredTokens(eqTables[b], now)],
              [b \in Backends |-> <<cleanedCount(eqTables[b], now)>>])

EqGetTokenCount ==
    /\ eqOps < MaxEqOps
    /\ EqCall("getTokenCount", "none", eqTables,
              [b \in Backends |-> <<getTokenCount(b, eqTables[b], now)>>])

TickEq ==
    /\ now < MaxEqTime
    /\ now' = now + 1
    /\ UNCHANGED <<outsideEq, eqVars>>

NextEq ==
    \/ \E key \in Keys : \E token \in TokenInputs(now) : EqStoreToken(key, token)
    \/ \E key \in Keys : EqGetToken(key)
    \/ \E key \in Keys : EqDeleteToken(key)
    \/ EqCleanupExpiredTokens
    \/ EqGetTokenCount
    \/ TickEq

SpecEq == InitEq /\ [][NextEq]_vars

\* two results of one call are the same; two tokens read back are compared
\* without the fields an adapter derives on reading (expires_in, and
\* null for an absent refresh token)
SameResult(op, x, y) ==
    IF op = "getToken"
    THEN /\ x[1].access_token = y[1].access_token
         /\ x[1].cached_at = y[1].cached_at
         /\ x[1].expires_at = y[1].expires_at
    ELSE x = y

\* C33: for the same calls at the same times the three backends return
\* the same results; getToken on an expired token returns null and leaves
\* no row for the key on any backend, so that a following deleteToken of
\* the key returns false
C33_BackendsAgree ==
    /\ \A a, b \in Backends : SameResult(eqLast.op, eqLast.results[a], eqLast.results[b])
    /\ \A b \in Backends :
          (eqLast.op = "getToken" /\ eqLast.results[b] = <<NullToken>>) =>
              /\ RowsFor(eqTables[b], eqLast.key) = {}
              /\ ~deleteToken(eqTables[b], eqLast.key).existed


\* ---------------------------------------------------------------------
\* checkRateLimit calls of one identity in flight at once, with a durable
\* adapter that never fails (src/services/ratelimit-service.ts 36-96,
\* src/services/database/postgresql-adapter.ts 232-265)
\* ---------------------------------------------------------------------

\* the number of calls in flight
MaxRcCalls == 4

RcIp == "ip1"

\* a call before its read, between `await getRateLimit` and the write, and after
RcCall(pc, entry, allowed) == [pc |-> pc, entry |-> entry, allowed |-> allowed]

InitRc ==
    /\ now = 0
    /\ DbIdle
    /\ TcIdle
    /\ ExIdle
    /\ ChIdle
    /\ CoIdle
    /\ SdIdle
    /\ UpIdle
    /\ StIdle
    /\ OxIdle
    /\ InIdle
    /\ SlIdle
    /\ TrIdle
    /\ MaIdle
    /\ BlIdle
    /\ AkIdle
    /\ EqIdle
    /\ database = "ok"
    /\ memoryStore = EmptyStore
    /\ rateLimits = EmptyStore
    /\ refStore = EmptyStore
    /\ rlHist = [k \in Ips |-> <<>>]
    /\ lastCheck = NoCheck
    /\ rcCalls = [c \in 1..MaxRcCalls |-> RcCall("start", NoEntry, FALSE)]

outsideRc == <<now, database, refStore, rlHist, lastCheck, dbVars, tcVars, exVars, chVars,
               coVars, sdVars, upVars, trVars, maVars, blVars, akVars, eqVars, slVars, inVars, oxVars, stVars>>

\* entry = await this.database.getRateLimit(clientIp): the call holds what it read
RcRead(c) ==
    /\ rcCalls[c].pc = "start"
    /\ rcCalls' = [rcCalls EXCEPT ![c] = RcCall("read", rateLimits[RcIp], FALSE)]
    /\ UNCHANGED <<memoryStore, rateLimits, outsideRc>>

\* the rest of the try block, on the entry the call read: a fresh entry or
\* one more request, written with setRateLimit, and the answer
RcWrite(c) ==
    /\ rcCalls[c].pc = "read"
    /\ LET r == checkRateLimitTry(memoryStore, [rateLimits EXCEPT ![RcIp] = rcCalls[c].entry],
                                  TRUE, TRUE, RcIp, now)
       IN  /\ rateLimits' = [rateLimits EXCEPT ![RcIp] = r.db[RcIp]]
           /\ memoryStore' = r.mem
           /\ rcCalls' = [rcCalls EXCEPT ![c] = RcCall("done", r.db[RcIp], r.allowed)]
    /\ UNCHANGED outsideRc

NextRc ==
    \/ \E c \in 1..MaxRcCalls : RcRead(c)
    \/ \E c \in 1..MaxRcCalls : RcWrite(c)

SpecRc == InitRc /\ [][NextRc]_vars

RcDone == {c \in 1..MaxRcCalls : rcCalls[c].pc = "done"}

\* C34: with a durable adapter that never fails and several calls of one
\* identity in flight inside one window, every call is counted exactly once
\* (the stored count is the number of calls that have written) and at most
\* max of the calls return true
C34_CountedOnce ==
    /\ rateLimits[RcIp].requests = Cardinality(RcDone)
    /\ Cardinality({c \in RcDone : rcCalls[c].allowed}) <= rateLimitMaxRequests


\* ---------------------------------------------------------------------
\* The count of one identity across switches between the adapter and the
\* in-process store (src/services/ratelimit-service.ts 36-115), on the
\* runs of SpecFW
\* ---------------------------------------------------------------------

\* the calls made less than a window after the identity's first request
FwFirstWindow ==
    {k \in 1..Len(FwCalls) : FwCalls[k].t - FwCalls[1].t < rateLimitWindowMs}

\* C35: whichever adapter reads and writes fail, at most max calls of one
\* identity return true within a window of its first request: a switch
\* between the durable store and the in-process store neither restarts
\* nor forks the count
C35_NoForkOnFallback ==
    Cardinality({k \in FwFirstWindow : FwCalls[k].allowed}) <= rateLimitMaxRequests


\* ---------------------------------------------------------------------
\* The connection count of slowlorisProtectionMiddleware for one identity
\* (src/unnamed/part_000 203-292)
\* ---------------------------------------------------------------------

\* the limits of the middleware, scaled down: 10 concurrent connections,
\* more than 5 connections within 5000 ms, the 30 s request timeout and the
\* 5 minutes after which an entry is stale
maxConcurrent == 2
rapidCount == 1
rapidWindowMs == 1
requestTimeoutMs == 1
staleTimeout == 2

\* bounds of the runs
MaxSlReqs == 4
MaxSlTime == 3

SlRequest(state, entered) == [state |-> state, entered |-> entered]

InitSl ==
    /\ now = 0
    /\ RLIdle
    /\ DbIdle
    /\ TcIdle
    /\ ExIdle
    /\ ChIdle
    /\ CoIdle
    /\ SdIdle
    /\ UpIdle
    /\ StIdle
    /\ OxIdle
    /\ InIdle
    /\ TrIdle
    /\ MaIdle
    /\ BlIdle
    /\ AkIdle
    /\ EqIdle
    /\ RcIdle
    /\ activeConnections = NoConnection
    /\ slReqs = [r \in 1..MaxSlReqs |-> SlRequest("new", -1)]
    /\ staleCleaned = 0

outsideSl == <<rlVars, dbVars, tcVars, exVars, chVars, coVars, sdVars, upVars, trVars, maVars,
               blVars, akVars, eqVars, rcVars, inVars, oxVars, stVars>>

\* the middleware up to `await next()`: count the connection, reject it
\* with 429 when there are too many or they come too fast, else arm the
\* timeout and register the 'finish' handler
enter(info, t) ==
    LET base == IF info = NoConnection
                THEN [count |-> 0, firstConnection |-> t, lastActivity |-> t] ELSE info
        counted == [base EXCEPT !.count = @ + 1, !.lastActivity = t]
        rejected == \/ counted.count > maxConcurrent
                    \/ (counted.count > rapidCount /\ t - counted.firstConnection < rapidWindowMs)
    IN  [info |-> counted, state |-> IF rejected THEN "rejected" ELSE "active"]

\* the 'finish' handler of an accepted request
onFinish(info) ==
    IF info = NoConnection THEN info
    ELSE IF info.count - 1 <= 0 THEN NoConnection
    ELSE [info EXCEPT !.count = @ - 1]

Enter(r) ==
    /\ slReqs[r].state = "new"
    /\ LET e == enter(activeConnections, now)
       IN  /\ activeConnections' = e.info
           /\ slReqs' = [slReqs EXCEPT ![r] = SlRequest(e.state, now)]
    /\ UNCHANGED <<now, staleCleaned, outsideSl>>

\* the response of an accepted request finishes: its handler runs
FinishAccepted(r) ==
    /\ slReqs[r].state = "active"
    /\ activeConnections' = onFinish(activeConnections)
    /\ slReqs' = [slReqs EXCEPT ![r] = SlRequest("finished", @.entered)]
    /\ UNCHANGED <<now, staleCleaned, outsideSl>>

\* the 429 of a rejected request finishes: no handler was registered for it
FinishRejected(r) ==
    /\ slReqs[r].state = "rejected"
    /\ slReqs' = [slReqs EXCEPT ![r] = SlRequest("finished", @.entered)]
    /\ UNCHANGED <<now, activeConnections, staleCleaned, outsideSl>>

\* cleanupStaleConnections, run from a request of another identity
StaleCleanup ==
    /\ activeConnections # NoConnection
    /\ now - activeConnections.lastActivity > staleTimeout
    /\ activeConnections' = NoConnection
    /\ staleCleaned' = staleCleaned + 1
    /\ UNCHANGED <<now, slReqs, outsideSl>>

\* time passes; a response is finished by the time the request timeout is over
TickSl ==
    /\ now < MaxSlTime
    /\ \A r \in 1..MaxSlReqs :
          slReqs[r].state \in {"active", "rejected"} => now - slReqs[r].entered < requestTimeoutMs
    /\ now' = now + 1
    /\ UNCHANGED <<slVars, outsideSl>>

NextSl ==
    \/ \E r \in 1..MaxSlReqs : Enter(r)
    \/ \E r \in 1..MaxSlReqs : FinishAccepted(r)
    \/ \E r \in 1..MaxSlReqs : FinishRejected(r)
    \/ StaleCleanup
    \/ TickSl

SpecSl == InitSl /\ [][NextSl]_vars

\* the requests that entered the middleware and whose response has not finished
Unfinished == {r \in 1..MaxSlReqs : slReqs[r].state \in {"active", "rejected"}}

\* C36: the active-connection count of an identity equals the number of
\* its requests that entered the middleware and whose response has not
\* finished, and is back at 0 (entry removed) once all have finished, the
\* ones the middleware rejected with 429 included
C36_CountMatchesOpenRequests ==
    /\ activeConnections.count = Cardinality(Unfinished)
    /\ Unfinished = {} => activeConnections = NoConnection


\* ---------------------------------------------------------------------
\* Container.initializeDatabase / initializeServices
\* (src/core/container.ts 179-228) and the limiter built by them
\* ---------------------------------------------------------------------

\* bounds of the runs
MaxInCalls == 3
MaxInTime == 2

InitIn ==
    /\ now = 0
    /\ DbIdle
    /\ TcIdle
    /\ ExIdle
    /\ ChIdle
    /\ CoIdle
    /\ SdIdle
    /\ UpIdle
    /\ StIdle
    /\ OxIdle
    /\ TrIdle
    /\ MaIdle
    /\ BlIdle
    /\ AkIdle
    /\ EqIdle
    /\ RcIdle
    /\ SlIdle
    /\ RLIdle
    /\ configType \in {"memory", "sqlite", "postgresql"}
    /\ inPc = "start"
    /\ databaseManager = "undefined"
    /\ adapterCalls = 0

outsideIn == <<dbVars, tcVars, exVars, chVars, coVars, sdVars, upVars, trVars, maVars, blVars,
               akVars, eqVars, rcVars, slVars, oxVars, stVars>>

\* initializeDatabase: the manager is assigned before initialize() is
\* awaited; a rejected initialize() is logged and nothing is undone
initializeDatabase(type, connectOk) ==
    IF type = "memory" THEN "undefined"
    ELSE IF connectOk THEN "connected" ELSE "unconnected"

\* initializeServices: database = services.databaseManager?.getAdapter(),
\* handed to RateLimitService and TokenCacheService
getAdapter(manager) ==
    CASE manager = "undefined" -> "none"
      [] manager = "connected" -> "ok"
      [] OTHER -> "fail"

InitializeDatabase(connectOk) ==
    /\ inPc = "start"
    /\ databaseManager' = initializeDatabase(configType, connectOk)
    /\ inPc' = "database"
    /\ UNCHANGED <<now, rlVars, configType, adapterCalls, outsideIn>>

InitializeServices ==
    /\ inPc = "database"
    /\ database' = getAdapter(databaseManager)
    /\ inPc' = "ready"
    /\ UNCHANGED <<now, memoryStore, rateLimits, refStore, rlHist, lastCheck, configType,
                   databaseManager, adapterCalls, outsideIn>>

\* a request reaches the limiter: checkRateLimit asks the adapter it was
\* built with; an adapter that is not connected throws
InCheckRateLimit(ip) ==
    /\ inPc = "ready"
    /\ TotalCalls < MaxInCalls
    /\ LET r == checkRateLimit(memoryStore, rateLimits, database # "none",
                               database = "ok", database = "ok", ip, now)
       IN  /\ memoryStore' = r.mem
           /\ rateLimits' = r.db
           /\ rlHist' = [rlHist EXCEPT ![ip] =
                            Append(@, [t |-> now, allowed |-> r.allowed, ref |-> r.allowed])]
    /\ adapterCalls' = IF database # "none" THEN adapterCalls + 1 ELSE adapterCalls
    /\ UNCHANGED <<now, database, refStore, lastCheck, configType, inPc, databaseManager,
                   outsideIn>>

TickIn ==
    /\ now < MaxInTime
    /\ now' = now + 1
    /\ UNCHANGED <<rlVars, inVars, outsideIn>>

NextIn ==
    \/ \E connectOk \in BOOLEAN : InitializeDatabase(connectOk)
    \/ InitializeServices
    \/ \E ip \in Ips : InCheckRateLimit(ip)
    \/ TickIn

SpecIn == InitIn /\ [][NextIn]_vars

\* C37: when the adapter fails to connect at startup, initialization
\* still completes, the services are built without adapter (database
\* undefined) and no call is ever made on the unconnected adapter
C37_NoAdapterAfterFailedConnect ==
    (databaseManager = "unconnected" /\ inPc = "ready") =>
        /\ database = "none"
        /\ adapterCalls = 0

(***************************************************************************)
(* TraktController.exchangeToken: requests that overlap                    *)
(***************************************************************************)
MaxOxReqs == 2              \* exchange-token requests per behaviour
MaxOxTime == 1              \* the clock stops here

\* a request that passed the handler's checks, before its cache lookup
OxRequest(code) ==
    [code |-> code, pc |-> "lookup", resp |-> NoResponse, overlaps |-> {},
     upstream |-> FALSE, reply |-> 0, from_cache |-> FALSE]

InitOx ==
    /\ now = 0
    /\ ChIdle
    /\ CoIdle
    /\ SdIdle
    /\ UpIdle
    /\ StIdle
    /\ InIdle
    /\ SlIdle
    /\ RcIdle
    /\ EqIdle
    /\ AkIdle
    /\ BlIdle
    /\ MaIdle
    /\ TrIdle
    /\ OutsideTCIdle
    /\ database \in {"none", "ok"}
    /\ backend \in IF database = "none" THEN {"memory"} ELSE {"memory", "sqlite"}
    /\ tokens = {}
    /\ TcIdle
    /\ ExIdle
    /\ OxIdle

outsideOx == <<memoryStore, rateLimits, refStore, rlHist, lastCheck, dbOps, lastGet, upsert,
               tcOps, lastCache, lastLookup, exVars, chVars, coVars, sdVars, upVars, trVars,
               maVars, blVars, akVars, eqVars, rcVars, slVars, inVars, stVars>>

\* the handler is entered and its checks pass
OxArrive(code) ==
    /\ Len(oxReqs) < MaxOxReqs
    /\ oxReqs' = Append(oxReqs, OxRequest(code))
    /\ UNCHANGED <<now, database, backend, tokens, memoryCache, stats, upstreamCalls,
                   outsideOx>>

\* the requests of the same code that have looked up and not stored yet
OxPending(r) ==
    {i \in 1..Len(oxReqs) :
        /\ i # r
        /\ oxReqs[i].code = oxReqs[r].code
        /\ oxReqs[i].pc \in {"exchange", "store"}}

\* await this.tokenCacheService.getCachedToken(auth_code)
OxLookup(r) ==
    /\ r <= Len(oxReqs)
    /\ oxReqs[r].pc = "lookup"
    /\ LET g == getCachedToken(memoryCache, tokens, backend, database # "none", TRUE,
                               oxReqs[r].code, now, stats)
       IN  /\ memoryCache' = g.mem
           /\ tokens' = g.rows
           /\ stats' = g.stats
           /\ oxReqs' = [oxReqs EXCEPT ![r] =
                            IF g.token # NullToken
                            THEN [@ EXCEPT !.pc = "done", !.reply = 200,
                                           !.from_cache = TRUE,
                                           !.overlaps = OxPending(r)]
                            ELSE [@ EXCEPT !.pc = "exchange",
                                           !.overlaps = OxPending(r)]]
    /\ UNCHANGED <<now, database, backend, upstreamCalls, outsideOx>>

\* await this.traktService.exchangeToken(auth_code, redirect_uri)
OxExchange(r, up) ==
    /\ r <= Len(oxReqs)
    /\ up.status # 400
    /\ oxReqs[r].pc = "exchange"
    /\ upstreamCalls' = [upstreamCalls EXCEPT ![oxReqs[r].code] = @ + 1]
    /\ oxReqs' = [oxReqs EXCEPT ![r] =
                    IF up.ok
                    THEN [@ EXCEPT !.pc = "store", !.upstream = TRUE, !.resp = up.resp]
                    ELSE [@ EXCEPT !.pc = "done", !.upstream = TRUE,
                                   !.reply = handleError(up)]]
    /\ UNCHANGED <<now, database, backend, tokens, memoryCache, stats, outsideOx>>

\* await this.tokenCacheService.cacheToken(auth_code, tokens), then the response
OxStore(r) ==
    /\ r <= Len(oxReqs)
    /\ oxReqs[r].pc = "store"
    /\ LET c == cacheToken(memoryCache, tokens, backend, database # "none", TRUE,
                           oxReqs[r].code, oxReqs[r].resp, now)
       IN  /\ memoryCache' = c.mem
           /\ tokens' = c.rows
    /\ oxReqs' = [oxReqs EXCEPT ![r] = [@ EXCEPT !.pc = "done", !.reply = 200]]
    /\ UNCHANGED <<now, database, backend, stats, upstreamCalls, outsideOx>>

TickOx ==
    /\ now < MaxOxTime
    /\ now' = now + 1
    /\ UNCHANGED <<database, memoryStore, rateLimits, refStore, rlHist, lastCheck, dbVars,
                   tcVars, oxVars, exVars, chVars, coVars, sdVars, upVars, trVars, maVars,
                   blVars, akVars, eqVars, rcVars, slVars, inVars, stVars>>

NextOx ==
    \/ \E code \in Codes : OxArrive(code)
    \/ \E r \in 1..MaxOxReqs : OxLookup(r)
    \/ \E r \in 1..MaxOxReqs : \E up \in UpstreamOutcomes : OxExchange(r, up)
    \/ \E r \in 1..MaxOxReqs : OxStore(r)
    \/ TickOx

SpecOx == InitOx /\ [][NextOx]_vars

\* C38: of two exchange-token requests for the same authorization code that
\* overlap (the second looks the code up in the cache after the first has
\* looked it up and before the first has stored its token), at most one
\* calls the upstream exchange
C38_OverlappingExchangeOnce ==
    \A j \in 1..Len(oxReqs) : \A i \in oxReqs[j].overlaps :
        ~(oxReqs[i].upstream /\ oxReqs[j].upstream)

(***************************************************************************)
(* Router.logRequest: the success flag                                     *)
(***************************************************************************)
\* C39: a request-log entry has success = TRUE only when the response on
\* the wire has a 2xx status; a 4xx or 5xx response that a handler returned
\* is logged with success = FALSE
C39_SuccessOnlyFor2xx ==
    (chPc = "done" /\ requestLogs > 0 /\ logEntry.success) =>
        /\ written.status >= 200
        /\ written.status < 300

(***************************************************************************)
(* TokenCacheService: the hit and miss counters                            *)
(***************************************************************************)
MaxStOps == 4               \* calls of the service per behaviour
MaxStTime == 2              \* the clock stops here

\* variant: clear leaves dbHits as it is
clear_keepdbhits(cache, st) ==
    [mem |-> <<>>, stats |-> [NoStats EXCEPT !.dbHits = st.dbHits]]

\* TokenCacheService.clear: memoryCache is emptied and the four counters are
\* reset; the adapter's rows stay
clear(cache, st) ==
    [mem |-> <<>>, stats |-> NoStats]

InitSt ==
    /\ now = 0
    /\ OutsideTCIdle
    /\ database \in {"none", "flaky"}
    /\ backend \in IF database = "none" THEN {"memory"} ELSE {"memory", "sqlite"}
    /\ tokens = {}
    /\ TcIdle
    /\ ExIdle
    /\ ChIdle
    /\ CoIdle
    /\ SdIdle
    /\ UpIdle
    /\ OxIdle
    /\ InIdle
    /\ SlIdle
    /\ RcIdle
    /\ EqIdle
    /\ AkIdle
    /\ BlIdle
    /\ MaIdle
    /\ TrIdle
    /\ StIdle

outsideSt == <<memoryStore, rateLimits, refStore, rlHist, lastCheck, dbOps, lastGet, upsert,
               tcOps, lastCache, lastLookup, exVars, chVars, coVars, sdVars, upVars, trVars,
               maVars, blVars, akVars, eqVars, rcVars, slVars, inVars, oxVars>>

StCacheToken(code, resp, writeOk) ==
    /\ stOps < MaxStOps
    /\ AdapterMay(writeOk)
    /\ stOps' = stOps + 1
    /\ lastStOp' = "cacheToken"
    /\ LET c == cacheToken(memoryCache, tokens, backend, database # "none", writeOk,
                           code, resp, now)
       IN  /\ memoryCache' = c.mem
           /\ tokens' = c.rows
    /\ UNCHANGED <<now, database, backend, stats, lookups, cleared, outsideSt>>

StGetCachedToken(code, readOk) ==
    /\ stOps < MaxStOps
    /\ AdapterMay(readOk)
    /\ stOps' = stOps + 1
    /\ lastStOp' = "getCachedToken"
    /\ lookups' = lookups + 1
    /\ LET g == getCachedToken(memoryCache, tokens, backend, database # "none", readOk,
                               code, now, stats)
       IN  /\ memoryCache' = g.mem
           /\ tokens' = g.rows
           /\ stats' = g.stats
    /\ UNCHANGED <<now, database, backend, cleared, outsideSt>>

StRefreshToken(code, resp, readOk, writeOk) ==
    /\ stOps < MaxStOps
    /\ AdapterMay(readOk)
    /\ AdapterMay(writeOk)
    /\ stOps' = stOps + 1
    /\ lastStOp' = "refreshToken"
    /\ lookups' = lookups + 1
    /\ LET r == refreshToken(memoryCache, tokens, backend, database # "none", readOk,
                             writeOk, code, resp, now, stats)
       IN  /\ memoryCache' = r.mem
           /\ tokens' = r.rows
           /\ stats' = r.stats
    /\ UNCHANGED <<now, database, backend, cleared, outsideSt>>

StClear ==
    /\ stOps < MaxStOps
    /\ stOps' = stOps + 1
    /\ lastStOp' = "clear"
    /\ cleared' = cleared + 1
    /\ lookups' = 0
    /\ LET c == clear(memoryCache, stats)
       IN  /\ memoryCache' = c.mem
           /\ stats' = c.stats
    /\ UNCHANGED <<now, database, backend, tokens, outsideSt>>

TickSt ==
    /\ now < MaxStTime
    /\ now' = now + 1
    /\ UNCHANGED <<database, memoryStore, rateLimits, refStore, rlHist, lastCheck, dbVars,
                   tcVars, stVars, exVars, chVars, coVars, sdVars, upVars, trVars, maVars,
                   blVars, akVars, eqVars, rcVars, slVars, inVars, oxVars>>

NextSt ==
    \/ \E code \in TrCodes : \E resp \in TokenResponses : \E ok \in BOOLEAN :
            StCacheToken(code, resp, ok)
    \/ \E code \in TrCodes : \E ok \in BOOLEAN : StGetCachedToken(code, ok)
    \/ \E code \in TrCodes : \E resp \in TokenResponses : \E readOk, writeOk \in BOOLEAN :
            StRefreshToken(code, resp, readOk, writeOk)
    \/ StClear
    \/ TickSt

SpecSt == InitSt /\ [][NextSt]_vars

\* C40: after any sequence of cacheToken, getCachedToken, refreshToken and
\* clear calls, cacheHits = dbHits + memoryHits, and cacheHits + cacheMisses
\* is the number of lookups made since the last clear, the lookup inside
\* refreshToken included
C40_CountersAddUp ==
    /\ stats.cacheHits = stats.dbHits + stats.memoryHits
    /\ stats.cacheHits + stats.cacheMisses = lookups

\* a clear, then a miss, and a hit counted by the lookup of refreshToken
C40_Witness ==
    /\ cleared > 0
    /\ lastStOp = "refreshToken"
    /\ stats.cacheMisses > 0
    /\ stats.cacheHits > 0
    /\ lookups = 2

====
